---------------------------- MODULE Spec2Model ----------------------------
(***************************************************************************)
(* ConvoScope: the classification-and-aggregation engine.                  *)
(*                                                                         *)
(* Texts are TLA+ strings over printable ASCII (plus \t and \n); a         *)
(* character is a string of length 1.  Regular expressions of the source   *)
(* are modelled by what Python's re does on such texts: leftmost match,    *)
(* alternatives in order, greedy quantifiers with backtracking, \b as a    *)
(* change of word-ness between two neighbouring characters.  The emoji     *)
(* alternatives of the tables are kept as NonAsciiAlt entries; they match  *)
(* no ASCII text.                                                          *)
(***************************************************************************)
EXTENDS Integers, Sequences, FiniteSets, TLC

(***************************************************************************)
(* Characters and character classes (Python str, re: \d \w \s, [A-Z], ...) *)
(***************************************************************************)
Uppers == "ABCDEFGHIJKLMNOPQRSTUVWXYZ"
Lowers == "abcdefghijklmnopqrstuvwxyz"
DigitChars == "0123456789"

CharsOf(s) == { SubSeq(s, k, k) : k \in 1..Len(s) }

UpperSet == CharsOf(Uppers)
LowerSet == CharsOf(Lowers)
DigitSet == CharsOf(DigitChars)
LetterSet == UpperSet \cup LowerSet
AlnumSet == LetterSet \cup DigitSet
\* \w : letters, digits and the underscore
WordSet == AlnumSet \cup {"_"}
\* \s : the whitespace a text of the model can hold
SpaceSet == {" ", "\t", "\n", "\r", "\f"}

\* the character at position i of t (1-based), "" outside the text
Ch(t, i) == IF i >= 1 /\ i <= Len(t) THEN SubSeq(t, i, i) ELSE ""

\* str.lower() of one character
LowerOf == [c \in UpperSet |->
              LET k == CHOOSE j \in 1..Len(Uppers) : SubSeq(Uppers, j, j) = c
              IN  SubSeq(Lowers, k, k)]
LowerCh(c) == IF c \in UpperSet THEN LowerOf[c] ELSE c

\* str.lower(), the text cut in halves
RECURSIVE Lower(_)
Lower(t) ==
    IF Len(t) = 0 THEN ""
    ELSE IF Len(t) = 1 THEN LowerCh(t)
    ELSE LET h == Len(t) \div 2
         IN  Lower(SubSeq(t, 1, h)) \o Lower(SubSeq(t, h + 1, Len(t)))

\* \b before position p (between characters p-1 and p)
Bnd(t, p) == (Ch(t, p - 1) \in WordSet) # (Ch(t, p) \in WordSet)

Min(S) == CHOOSE x \in S : \A y \in S : x <= y
Max(S) == CHOOSE x \in S : \A y \in S : y <= x

\* the last position of the longest run of characters of S starting at i
\* (i - 1 when the character at i is not in S)
RunEnd(t, i, S) ==
    LET stop == { j \in i..Len(t) : Ch(t, j) \notin S }
    IN  IF stop = {} THEN (IF i > Len(t) THEN i - 1 ELSE Len(t)) ELSE Min(stop) - 1

\* str.strip(): leading and trailing whitespace removed
Strip(t) ==
    LET keep == { j \in 1..Len(t) : Ch(t, j) \notin SpaceSet }
    IN  IF keep = {} THEN "" ELSE SubSeq(t, Min(keep), Max(keep))

\* len(str.split()): the number of maximal runs of non-whitespace
WordCount(t) ==
    Cardinality({ i \in 1..Len(t) :
                    Ch(t, i) \notin SpaceSet /\ (i = 1 \/ Ch(t, i - 1) \in SpaceSet) })

\* str.count(sub) for a one-character sub
CountChar(t, c) == Cardinality({ i \in 1..Len(t) : Ch(t, i) = c })

\* str.replace(old, new): every non-overlapping occurrence, left to right
\* old occurs in t at position i
OccursAt(t, i, old) == i + Len(old) - 1 <= Len(t) /\ SubSeq(t, i, i + Len(old) - 1) = old
RECURSIVE ReplaceFrom(_, _, _, _)
ReplaceFrom(t, i, old, new) ==
    LET occ == { j \in i..Len(t) : OccursAt(t, j, old) }
    IN  IF occ = {} THEN (IF i > Len(t) THEN "" ELSE SubSeq(t, i, Len(t)))
        ELSE LET j == Min(occ)
             IN  (IF j > i THEN SubSeq(t, i, j - 1) ELSE "") \o new
                   \o ReplaceFrom(t, j + Len(old), old, new)
Replace(t, old, new) == ReplaceFrom(t, 1, old, new)

\* str.count(sub): the non-overlapping occurrences of sub, left to right
RECURSIVE CountFrom(_, _, _)
CountFrom(t, i, sub) ==
    LET occ == { j \in i..Len(t) : OccursAt(t, j, sub) }
    IN  IF occ = {} THEN 0 ELSE 1 + CountFrom(t, Min(occ) + Len(sub), sub)
Count(t, sub) == CountFrom(t, 1, sub)

\* the backquote (code 96).  A string literal cannot hold it, so the texts
\* of the model write it as the character DEL (code 127), which then stands
\* for nothing else; like the backquote it is no letter, digit or whitespace
BackQuote == ""

(***************************************************************************)
(* Keyword patterns: an alternation of literals, each with an optional \b  *)
(* before and after it.  re.search and re.findall on lower-cased text.     *)
(***************************************************************************)
Alt(pre, lit, post) == [pre |-> pre, lit |-> lit, post |-> post, ascii |-> TRUE]
NonAsciiAlt(codepoints) == [pre |-> FALSE, lit |-> codepoints, post |-> FALSE, ascii |-> FALSE]
\* r'\b(w1|w2|...)\b'
WB(words) == [k \in 1..Len(words) |-> Alt(TRUE, words[k], TRUE)]

\* alternative alt matches t at position i
AltAt(t, i, alt) ==
    /\ alt.ascii
    /\ i + Len(alt.lit) - 1 <= Len(t)
    /\ SubSeq(t, i, i + Len(alt.lit) - 1) = alt.lit
    /\ alt.pre => Bnd(t, i)
    /\ alt.post => Bnd(t, i + Len(alt.lit))

\* the length of the match of pattern pat at position i: that of the first
\* alternative, in order, that matches there; 0 when none does
RECURSIVE MatchLenAt(_, _, _, _)
MatchLenAt(pat, k, t, i) ==
    IF k > Len(pat) THEN 0
    ELSE IF AltAt(t, i, pat[k]) THEN Len(pat[k].lit)
    ELSE MatchLenAt(pat, k + 1, t, i)

\* re.search(pat, t) is not None
Search(pat, t) == \E i \in 1..Len(t) : MatchLenAt(pat, 1, t, i) > 0

\* len(re.findall(pat, t)): leftmost non-overlapping matches
RECURSIVE FindAllFrom(_, _, _)
FindAllFrom(pat, t, i) ==
    LET starts == { j \in i..Len(t) : MatchLenAt(pat, 1, t, j) > 0 }
    IN  IF starts = {} THEN 0
        ELSE 1 + FindAllFrom(pat, t, Min(starts) + MatchLenAt(pat, 1, t, Min(starts)))
FindAllCount(pat, t) == FindAllFrom(pat, t, 1)

(***************************************************************************)
(* The static rule tables of ClaudeConversationAnalyzer.__init__, in       *)
(* dictionary (insertion) order.                                           *)
(***************************************************************************)
topic_patterns ==
  <<
    [name |-> "Technical/Coding", patterns |-> <<
        WB(<<"python", "javascript", "typescript", "java", "c++", "rust", "go", "ruby">>),
        WB(<<"code", "function", "class", "method", "api", "endpoint", "docker", "kubernetes", "git">>),
        WB(<<"debug", "error", "exception", "stack trace", "bug", "fix", "refactor">>),
        WB(<<"programming", "development", "software", "script", "algorithm">>),
        WB(<<"container", "deployment", "ci/cd", "devops", "infrastructure">>)
     >>],
    [name |-> "AI/ML", patterns |-> <<
        WB(<<"machine learning", "neural network", "deep learning", "transformer">>),
        WB(<<"model", "training", "inference", "embeddings", "vector", "llm", "gpt">>),
        WB(<<"artificial intelligence", "ai", "ml", "nlp", "computer vision">>),
        WB(<<"huggingface", "pytorch", "tensorflow", "langchain", "openai">>),
        WB(<<"prompt", "fine-tun", "finetun", "dataset", "optimization">>)
     >>],
    [name |-> "BlaqVox Project", patterns |-> <<
        <<Alt(TRUE, "blaqvox", TRUE)>>,
        <<Alt(TRUE, "community intelligence", TRUE)>>,
        <<Alt(TRUE, "government data", TRUE)>>,
        <<Alt(TRUE, "public records", TRUE)>>,
        <<Alt(TRUE, "data liberation", TRUE)>>,
        <<Alt(TRUE, "dashboard", FALSE), Alt(FALSE, "visualization", FALSE), Alt(FALSE, "analytics", TRUE)>>
     >>],
    [name |-> "GrandRYZE", patterns |-> <<
        <<Alt(TRUE, "grandrize", TRUE)>>,
        <<Alt(TRUE, "equipment analysis", TRUE)>>,
        <<Alt(TRUE, "image classification", TRUE)>>,
        <<Alt(TRUE, "flask api", TRUE)>>
     >>],
    [name |-> "Healthcare/VA", patterns |-> <<
        WB(<<"va", "veteran", "medical", "healthcare", "johanna", "cardiac", "hospital">>),
        WB(<<"doctor", "physician", "appointment", "emergency", "treatment">>),
        WB(<<"medication", "prescription", "diagnosis", "symptoms">>),
        <<Alt(TRUE, "advocacy", FALSE), Alt(FALSE, "congressional", FALSE), Alt(FALSE, "representative", TRUE)>>
     >>],
    [name |-> "Philosophy/Consciousness", patterns |-> <<
        WB(<<"ubuntu", "consciousness", "ma'at", "maat", "kemetic", "liberation">>),
        WB(<<"philosophy", "wisdom", "sacred", "collective", "interconnect">>),
        WB(<<"phoenix", "activation", "framework", "sovereign">>),
        WB(<<"mindfulness", "awareness", "presence", "being">>)
     >>],
    [name |-> "Creative/Art", patterns |-> <<
        WB(<<"music", "art", "creative", "generate", "image", "video", "rap", "freestyle">>),
        WB(<<"production", "studio", "design", "composition", "visual">>),
        WB(<<"dall-e", "dalle", "midjourney", "stable diffusion", "comfyui">>),
        WB(<<"poetry", "writing", "storytelling", "narrative">>)
     >>],
    [name |-> "Personal/Life", patterns |-> <<
        WB(<<"family", "relationship", "personal", "feeling", "emotion">>),
        WB(<<"christmas", "holiday", "vacation", "travel", "ocean shores">>),
        WB(<<"advice", "guidance", "support", "help">>)
     >>],
    [name |-> "Infrastructure", patterns |-> <<
        WB(<<"server", "deployment", "infrastructure", "docker", "container">>),
        WB(<<"architecture", "system design", "optimization", "scaling">>),
        WB(<<"database", "postgres", "mongodb", "redis", "vector db">>),
        WB(<<"nginx", "apache", "cloud", "aws", "azure", "gcp">>)
     >>],
    [name |-> "Data Analysis", patterns |-> <<
        WB(<<"data", "analysis", "statistics", "metrics", "analytics">>),
        WB(<<"pandas", "numpy", "matplotlib", "visualization">>),
        WB(<<"csv", "excel", "json", "sql", "query">>)
     >>],
    [name |-> "Documentation", patterns |-> <<
        WB(<<"documentation", "docs", "readme", "guide", "tutorial">>),
        WB(<<"explain", "clarify", "describe", "outline">>),
        WB(<<"technical writing", "specification", "requirements">>)
     >>],
    [name |-> "Debugging", patterns |-> <<
        WB(<<"debug", "troubleshoot", "diagnose", "investigate">>),
        WB(<<"error", "exception", "traceback", "failing", "broken">>),
        WB(<<"logs", "logging", "monitoring", "observability">>)
     >>],
    [name |-> "Security/Privacy", patterns |-> <<
        WB(<<"security", "privacy", "encryption", "authentication">>),
        WB(<<"vulnerability", "exploit", "breach", "attack">>),
        WB(<<"gdpr", "compliance", "data protection">>)
     >>]
  >>

sentiment_patterns ==
  <<
    [name |-> "Very Positive", patterns |-> <<
        WB(<<"amazing", "excellent", "perfect", "brilliant", "outstanding", "fantastic">>),
        WB(<<"love it", "absolutely", "phenomenal", "incredible", "wonderful">>),
        <<NonAsciiAlt("U1F525"), NonAsciiAlt("U2728"), NonAsciiAlt("U1F4AF"), NonAsciiAlt("U1F389"), NonAsciiAlt("U1F680"), NonAsciiAlt("U2B50")>>
     >>],
    [name |-> "Positive", patterns |-> <<
        WB(<<"great", "good", "nice", "helpful", "thanks", "appreciate", "useful">>),
        WB(<<"works", "working", "solved", "fixed", "better">>),
        <<NonAsciiAlt("U1F60A"), NonAsciiAlt("U1F44D"), NonAsciiAlt("U1F44C"), NonAsciiAlt("U2705"), NonAsciiAlt("U1F4AA")>>
     >>],
    [name |-> "Neutral", patterns |-> <<
        WB(<<"okay", "fine", "alright", "understood", "noted", "got it">>),
        WB(<<"interesting", "see", "makes sense">>)
     >>],
    [name |-> "Negative", patterns |-> <<
        WB(<<"wrong", "error", "failed", "broken", "issue", "problem">>),
        WB(<<"doesn't work", "not working", "frustrated", "confused">>),
        <<NonAsciiAlt("U1F61E"), NonAsciiAlt("U1F44E"), NonAsciiAlt("U274C")>>
     >>],
    [name |-> "Very Negative", patterns |-> <<
        WB(<<"terrible", "horrible", "awful", "useless", "disaster", "catastrophe">>),
        WB(<<"hate", "angry", "furious", "completely broken">>),
        <<NonAsciiAlt("U1F620"), NonAsciiAlt("U1F494"), NonAsciiAlt("U1F621"), NonAsciiAlt("U1F92C")>>
     >>],
    [name |-> "Urgent", patterns |-> <<
        WB(<<"urgent", "emergency", "asap", "immediately", "critical", "now", "help">>),
        WB(<<"deadline", "time-sensitive", "rush", "quickly">>),
        <<Alt(FALSE, "!!", FALSE), Alt(FALSE, "!!!", FALSE), NonAsciiAlt("U26A0+UFE0F"), NonAsciiAlt("U1F6A8"), NonAsciiAlt("U203C+UFE0F")>>
     >>],
    [name |-> "Questioning", patterns |-> <<
        WB(<<"why", "how", "what", "when", "where", "confused", "unclear">>),
        WB(<<"can you", "could you", "would you", "please explain">>),
        <<NonAsciiAlt("U2753"), NonAsciiAlt("U1F914")>>
     >>],
    [name |-> "Collaborative", patterns |-> <<
        WB(<<"let's", "we can", "together", "collaborate", "partnership">>),
        WB(<<"team", "work with", "joint", "cooperative">>),
        <<NonAsciiAlt("U1F91D"), NonAsciiAlt("U1F4AB")>>
     >>]
  >>

failure_patterns ==
  <<
    [name |-> "Hallucination", severity |-> "high", patterns |-> <<
        WB(<<"that's not true", "incorrect", "wrong", "didn't say", "made up">>),
        WB(<<"hallucinating", "fabricated", "inaccurate", "false">>),
        WB(<<"never said", "not what i", "completely wrong">>)
     >>],
    [name |-> "Refusal (Unnecessary)", severity |-> "medium", patterns |-> <<
        WB(<<"won't help", "can't assist", "unable to", "against guidelines">>),
        WB(<<"safety", "harmful", "inappropriate", "cannot provide">>),
        WB(<<"not allowed", "prohibited", "restricted">>)
     >>],
    [name |-> "Formatting Issues", severity |-> "low", patterns |-> <<
        WB(<<"formatting", "markdown", "broken", "display", "render">>),
        WB(<<"code block", "syntax", "structure", "layout">>)
     >>],
    [name |-> "Repetition", severity |-> "medium", patterns |-> <<
        WB(<<"repeating", "said that already", "again", "duplicate">>),
        WB(<<"circular", "loop", "same thing", "redundant">>)
     >>],
    [name |-> "Misunderstanding", severity |-> "medium", patterns |-> <<
        WB(<<"didn't understand", "misunderstood", "confused", "clarify">>),
        WB(<<"what i meant", "not what i asked", "missed the point">>)
     >>],
    [name |-> "Performance Theater", severity |-> "low", patterns |-> <<
        WB(<<"too formal", "corporate speak", "hedging", "verbose">>),
        WB(<<"unnecessary", "over-explaining", "preamble">>),
        WB(<<"cut the", "just answer", "get to the point">>)
     >>],
    [name |-> "Tool Misuse", severity |-> "high", patterns |-> <<
        WB(<<"wrong tool", "should have searched", "didn't search">>),
        WB(<<"tool error", "failed to fetch", "api error">>),
        WB(<<"why didn't you", "forgot to use">>)
     >>],
    [name |-> "Context Loss", severity |-> "high", patterns |-> <<
        WB(<<"forgot", "lost context", "earlier conversation", "remember">>),
        WB(<<"previous", "before", "you said", "we discussed">>),
        WB(<<"already told you", "keep forgetting">>)
     >>],
    [name |-> "Accuracy Error", severity |-> "high", patterns |-> <<
        WB(<<"factually wrong", "incorrect information", "outdated">>),
        WB(<<"not accurate", "misinformation", "error in">>)
     >>],
    [name |-> "Incomplete Response", severity |-> "medium", patterns |-> <<
        WB(<<"didn't finish", "cut off", "incomplete", "partial">>),
        WB(<<"where's the rest", "finish this", "complete">>)
     >>],
    [name |-> "Ignored Instructions", severity |-> "high", patterns |-> <<
        WB(<<"asked you not to", "told you to", "ignored", "didn't follow">>),
        WB(<<"specifically said", "explicitly requested">>)
     >>]
  >>

(***************************************************************************)
(* ContentClassifier: detect_topics, detect_sentiment, detect_failures     *)
(***************************************************************************)
\* detect_topics without the "break" after the first matching pattern
RECURSIVE TopicLoopNoBreak(_, _, _)
TopicLoopNoBreak(topic, j, text_lower) ==
    IF j > Len(topic.patterns) THEN <<>>
    ELSE (IF Search(topic.patterns[j], text_lower) THEN <<topic.name>> ELSE <<>>)
            \o TopicLoopNoBreak(topic, j + 1, text_lower)

\* the inner "for pattern in patterns: if re.search(...): append; break"
RECURSIVE TopicLoop(_, _, _)
TopicLoop(topic, j, text_lower) ==
    IF j > Len(topic.patterns) THEN <<>>
    ELSE IF Search(topic.patterns[j], text_lower) THEN <<topic.name>>
    ELSE TopicLoop(topic, j + 1, text_lower)

RECURSIVE TopicsFrom(_, _)
TopicsFrom(n, text_lower) ==
    IF n > Len(topic_patterns) THEN <<>>
    ELSE TopicLoop(topic_patterns[n], 1, text_lower) \o TopicsFrom(n + 1, text_lower)

detect_topics(text) ==
    LET detected == TopicsFrom(1, Lower(text))
    IN  IF detected # <<>> THEN detected ELSE <<"General">>

\* the findall counts of a list of patterns, added up (the inner scoring loop)
RECURSIVE PatternScore(_, _, _)
PatternScore(patterns, j, text_lower) ==
    IF j > Len(patterns) THEN 0
    ELSE FindAllCount(patterns[j], text_lower) + PatternScore(patterns, j + 1, text_lower)

SentimentScores(text) ==
    LET text_lower == Lower(text)
    IN  [n \in 1..Len(sentiment_patterns) |->
            PatternScore(sentiment_patterns[n].patterns, 1, text_lower)]

\* the last entry holding the maximum
ArgMaxLast(scores) ==
    CHOOSE n \in 1..Len(scores) :
        /\ \A m \in 1..Len(scores) : scores[m] <= scores[n]
        /\ \A m \in (n + 1)..Len(scores) : scores[m] < scores[n]

\* max(scores.items(), key=lambda x: x[1]): the first entry holding the maximum
ArgMaxFirst(scores) ==
    CHOOSE n \in 1..Len(scores) :
        /\ \A m \in 1..Len(scores) : scores[m] <= scores[n]
        /\ \A m \in 1..(n - 1) : scores[m] < scores[n]

SentimentIndex(name) == CHOOSE n \in 1..Len(sentiment_patterns) : sentiment_patterns[n].name = name

\* detect_sentiment without the "Urgent overrides if present" return
detect_sentiment_no_override(text) ==
    LET scores == SentimentScores(text)
        best == ArgMaxFirst(scores)
    IN  IF scores[best] > 0 THEN sentiment_patterns[best].name ELSE "Neutral"

detect_sentiment(text) ==
    LET scores == SentimentScores(text)
        best == ArgMaxFirst(scores)
    IN  IF scores[SentimentIndex("Urgent")] > 0 THEN "Urgent"
        ELSE IF scores[best] > 0 THEN sentiment_patterns[best].name
        ELSE "Neutral"

\* the failure type appended for every matching pattern: no "break"
RECURSIVE FailureLoopNoBreak(_, _, _)
FailureLoopNoBreak(config, j, text_lower) ==
    IF j > Len(config.patterns) THEN <<>>
    ELSE (IF Search(config.patterns[j], text_lower) THEN <<config>> ELSE <<>>)
            \o FailureLoopNoBreak(config, j + 1, text_lower)

\* one failure type: appended once, with its severity, at its first matching pattern
RECURSIVE FailureLoop(_, _, _)
FailureLoop(config, j, text_lower) ==
    IF j > Len(config.patterns) THEN <<>>
    ELSE IF Search(config.patterns[j], text_lower) THEN <<config>>
    ELSE FailureLoop(config, j + 1, text_lower)

RECURSIVE FailuresFrom(_, _)
FailuresFrom(n, text_lower) ==
    IF n > Len(failure_patterns) THEN <<>>
    ELSE FailureLoop(failure_patterns[n], 1, text_lower) \o FailuresFrom(n + 1, text_lower)

\* returns (detected, severities)
detect_failures(text) ==
    LET hits == FailuresFrom(1, Lower(text))
    IN  [detected |-> [k \in 1..Len(hits) |-> hits[k].name],
         severities |-> [k \in 1..Len(hits) |-> hits[k].severity]]

(***************************************************************************)
(* hashlib.md5(original.encode()).hexdigest()[:8]                          *)
(* MD5 (RFC 1321) on the ASCII bytes of the text.  A 32-bit word is the    *)
(* pair <<high half, low half>> of 16-bit numbers.                         *)
(***************************************************************************)
\* the printable ASCII characters from code 32 (space) to 95 (_) and from 97 (a)
\* to 126 (~); code 96 is BackQuote
AsciiLow == " !\"#$%&'(" \o ")*+,-./0123456789:;<=>?@ABCDEFGHIJKLMNOPQRSTUVWXYZ[\\]^_"
AsciiHigh == "abcdefghijklmnopqrstuvwxyz{|}~"

\* ord(c)
OrdOf ==
    [c \in CharsOf(AsciiLow) \cup CharsOf(AsciiHigh) \cup {"\t", "\n", "\f", "\r", BackQuote} |->
        CASE c = "\t" -> 9
          [] c = BackQuote -> 96
          [] c = "\n" -> 10
          [] c = "\f" -> 12
          [] c = "\r" -> 13
          [] c \in CharsOf(AsciiLow) ->
                31 + (CHOOSE k \in 1..Len(AsciiLow) : SubSeq(AsciiLow, k, k) = c)
          [] OTHER ->
                96 + (CHOOSE k \in 1..Len(AsciiHigh) : SubSeq(AsciiHigh, k, k) = c)]
Ord(c) == OrdOf[c]

\* str.encode(): the bytes of an ASCII text
Encode(t) == [k \in 1..Len(t) |-> Ord(Ch(t, k))]

RECURSIVE And16(_, _)
And16(a, b) ==
    IF a = 0 \/ b = 0 THEN 0
    ELSE ((a % 2) * (b % 2)) + (2 * And16(a \div 2, b \div 2))

WAnd(x, y) == <<And16(x[1], y[1]), And16(x[2], y[2])>>
WNot(x) == <<65535 - x[1], 65535 - x[2]>>
WOr(x, y) == <<x[1] + y[1] - And16(x[1], y[1]), x[2] + y[2] - And16(x[2], y[2])>>
WXor(x, y) == <<x[1] + y[1] - 2 * And16(x[1], y[1]), x[2] + y[2] - 2 * And16(x[2], y[2])>>
\* addition modulo 2^32
WAdd(x, y) ==
    LET lo == x[2] + y[2]
    IN  <<(x[1] + y[1] + (lo \div 65536)) % 65536, lo % 65536>>
\* rotation to the left by s bits, 0 <= s < 32
WRotl(x, s) ==
    LET y == IF s >= 16 THEN <<x[2], x[1]>> ELSE x
        r == IF s >= 16 THEN s - 16 ELSE s
    IN  IF r = 0 THEN y
        ELSE <<((y[1] * (2^r)) % 65536) + (y[2] \div (2^(16 - r))),
               ((y[2] * (2^r)) % 65536) + (y[1] \div (2^(16 - r)))>>

\* K[i] = floor(2^32 * abs(sin(i + 1)))
MD5K ==
    <<
       <<55146, 42104>>, <<59591, 46934>>, <<9248, 28891>>, <<49597, 52974>>,
       <<62844, 4015>>, <<18311, 50730>>, <<43056, 17939>>, <<64838, 38145>>,
       <<27008, 39128>>, <<35652, 63407>>, <<65535, 23473>>, <<35164, 55230>>,
       <<27536, 4386>>, <<64920, 29075>>, <<42617, 17294>>, <<18868, 2081>>,
       <<63006, 9570>>, <<49216, 45888>>, <<9822, 23121>>, <<59830, 51114>>,
       <<54831, 4189>>, <<580, 5203>>, <<55457, 59009>>, <<59347, 64456>>,
       <<8673, 52710>>, <<49975, 2006>>, <<62677, 3463>>, <<17754, 5357>>,
       <<43491, 59653>>, <<64751, 41976>>, <<26479, 729>>, <<36138, 19594>>,
       <<65530, 14658>>, <<34673, 63105>>, <<28061, 24866>>, <<64997, 14348>>,
       <<42174, 59972>>, <<19422, 53161>>, <<63163, 19296>>, <<48831, 48240>>,
       <<10395, 32454>>, <<60065, 10234>>, <<54511, 12421>>, <<1160, 7429>>,
       <<55764, 53305>>, <<59099, 39397>>, <<8098, 31992>>, <<50348, 22117>>,
       <<62505, 8772>>, <<17194, 65431>>, <<43924, 9127>>, <<64659, 41017>>,
       <<25947, 22979>>, <<36620, 52370>>, <<65519, 62589>>, <<34180, 24017>>,
       <<28584, 32335>>, <<65068, 59104>>, <<41729, 17172>>, <<19976, 4513>>,
       <<63315, 32386>>, <<48442, 62005>>, <<10967, 53947>>, <<60294, 54161>>
    >>

\* the per-round shift amounts
MD5S ==
    << 7, 12, 17, 22, 7, 12, 17, 22, 7, 12, 17, 22, 7, 12, 17, 22,
       5, 9, 14, 20, 5, 9, 14, 20, 5, 9, 14, 20, 5, 9, 14, 20,
       4, 11, 16, 23, 4, 11, 16, 23, 4, 11, 16, 23, 4, 11, 16, 23,
       6, 10, 15, 21, 6, 10, 15, 21, 6, 10, 15, 21, 6, 10, 15, 21 >>

\* A, B, C, D at the start: 67452301 efcdab89 98badcfe 10325476
MD5Start == << <<26437, 8961>>, <<61389, 43913>>, <<39098, 56574>>, <<4146, 21622>> >>

\* the message padded to a multiple of 64 bytes: 0x80, zeros, the bit length (little-endian)
MD5Pad(bytes) ==
    LET n == Len(bytes)
        zeros == (119 - (n % 64)) % 64
        bits == 8 * n
    IN  bytes \o <<128>> \o [k \in 1..zeros |-> 0]
          \o <<bits % 256, (bits \div 256) % 256, (bits \div 65536) % 256,
               (bits \div 16777216) % 256, 0, 0, 0, 0>>

\* word g (0..15) of block b (0-based) of the padded message, little-endian
MD5Word(padded, b, g) ==
    LET o == (64 * b) + (4 * g)
    IN  <<(256 * padded[o + 4]) + padded[o + 3], (256 * padded[o + 2]) + padded[o + 1]>>

\* round i (0..63) on the state st = <<A, B, C, D>>
MD5Round(st, padded, b, i) ==
    LET A == st[1]  B == st[2]  C == st[3]  D == st[4]
        F == IF i < 16 THEN WOr(WAnd(B, C), WAnd(WNot(B), D))
             ELSE IF i < 32 THEN WOr(WAnd(D, B), WAnd(WNot(D), C))
             ELSE IF i < 48 THEN WXor(WXor(B, C), D)
             ELSE WXor(C, WOr(B, WNot(D)))
        g == IF i < 16 THEN i
             ELSE IF i < 32 THEN ((5 * i) + 1) % 16
             ELSE IF i < 48 THEN ((3 * i) + 5) % 16
             ELSE (7 * i) % 16
        sum == WAdd(WAdd(WAdd(F, A), MD5K[i + 1]), MD5Word(padded, b, g))
    IN  <<D, WAdd(B, WRotl(sum, MD5S[i + 1])), B, C>>

\* rounds i .. last; the state of a round is computed before the next is entered
RECURSIVE MD5Rounds(_, _, _, _, _)
MD5Rounds(st, padded, b, i, last) ==
    IF Len(st) = 4 /\ i <= last
    THEN MD5Rounds(MD5Round(st, padded, b, i), padded, b, i + 1, last)
    ELSE st
\* the 64 rounds of one block
MD5Block(st, padded, b) == MD5Rounds(st, padded, b, 0, 63)

\* the state after a block: the state before it plus the result of the rounds
MD5Sum(st, r) == <<WAdd(st[1], r[1]), WAdd(st[2], r[2]), WAdd(st[3], r[3]), WAdd(st[4], r[4])>>

RECURSIVE MD5Blocks(_, _, _)
MD5Blocks(st, padded, b) ==
    IF 64 * b >= Len(padded) THEN st
    ELSE MD5Blocks(MD5Sum(st, MD5Block(st, padded, b)), padded, b + 1)

HexDigits == "0123456789abcdef"
HexByte(v) == SubSeq(HexDigits, (v \div 16) + 1, (v \div 16) + 1) \o SubSeq(HexDigits, (v % 16) + 1, (v % 16) + 1)

\* hexdigest()[:8]: the first four bytes of the digest, the low byte of A first
HexWord(A) ==
    HexByte(A[2] % 256) \o HexByte(A[2] \div 256) \o HexByte(A[1] % 256) \o HexByte(A[1] \div 256)
Hash8(t) == HexWord(MD5Blocks(MD5Start, MD5Pad(Encode(t)), 0)[1])

(***************************************************************************)
(* PrivacyRedactor: the PII and sensitive-entity regular expressions.      *)
(* XxxEnd(t, i) is the last position of the match of the pattern that      *)
(* starts at position i of t, and 0 when the pattern does not match there. *)
(***************************************************************************)
\* the n characters from position i are digits
DigitsAt(t, i, n) == \A k \in i..(i + n - 1) : Ch(t, k) \in DigitSet
\* an optional single character of S at position p (x?): the position after it
SkipOpt(t, p, S) == IF Ch(t, p) \in S THEN p + 1 ELSE p

\* 'email': r'\b[A-Za-z0-9._%+-]+@[A-Za-z0-9.-]+\.[A-Z|a-z]{2,}\b'
EmailLocalSet == AlnumSet \cup {".", "_", "%", "+", "-"}
EmailDomainSet == AlnumSet \cup {".", "-"}
EmailTldSet == LetterSet \cup {"|"}
\* [A-Z|a-z]{2,}\b from position q: greedy, giving back characters to reach a \b
TldEnd(t, q) ==
    LET e == RunEnd(t, q, EmailTldSet)
        ends == { m \in (q + 1)..e : Bnd(t, m + 1) }
    IN  IF ends = {} THEN 0 ELSE Max(ends)
EmailEnd(t, i) ==
    IF ~Bnd(t, i) THEN 0
    ELSE LET e1 == RunEnd(t, i, EmailLocalSet)
         IN  IF e1 < i \/ Ch(t, e1 + 1) # "@" THEN 0
             ELSE LET d0 == e1 + 2
                      e2 == RunEnd(t, d0, EmailDomainSet)
                      \* the dot before the TLD: the rightmost one that works
                      dots == { j \in (d0 + 1)..e2 : Ch(t, j) = "." /\ TldEnd(t, j + 1) # 0 }
                  IN  IF dots = {} THEN 0 ELSE TldEnd(t, Max(dots) + 1)

\* 'phone': r'\b(?:\+?1[-.]?)?\(?([0-9]{3})\)?[-.]?([0-9]{3})[-.]?([0-9]{4})\b'
PhoneSepSet == {"-", "."}
\* \(?([0-9]{3})\)?[-.]?([0-9]{3})[-.]?([0-9]{4})\b from position p
PhoneCore(t, p) ==
    LET a == SkipOpt(t, p, {"("})
    IN  IF ~DigitsAt(t, a, 3) THEN 0
        ELSE LET b == SkipOpt(t, SkipOpt(t, a + 3, {")"}), PhoneSepSet)
             IN  IF ~DigitsAt(t, b, 3) THEN 0
                 ELSE LET c == SkipOpt(t, b + 3, PhoneSepSet)
                      IN  IF DigitsAt(t, c, 4) /\ Bnd(t, c + 4) THEN c + 3 ELSE 0
\* (?:\+?1[-.]?) at position i: the position after it, 0 when it does not match
PhonePrefix(t, i) ==
    LET a == SkipOpt(t, i, {"+"})
    IN  IF Ch(t, a) = "1" THEN SkipOpt(t, a + 1, PhoneSepSet) ELSE 0
\* the optional country prefix is tried first, then the number without it
PhoneEnd(t, i) ==
    IF ~Bnd(t, i) THEN 0
    ELSE LET p == PhonePrefix(t, i)
             withPrefix == IF p = 0 THEN 0 ELSE PhoneCore(t, p)
         IN  IF withPrefix # 0 THEN withPrefix ELSE PhoneCore(t, i)

\* 'ssn': r'\b\d{3}-\d{2}-\d{4}\b'
SsnEnd(t, i) ==
    IF /\ Bnd(t, i)
       /\ DigitsAt(t, i, 3) /\ Ch(t, i + 3) = "-"
       /\ DigitsAt(t, i + 4, 2) /\ Ch(t, i + 6) = "-"
       /\ DigitsAt(t, i + 7, 4) /\ Bnd(t, i + 11)
    THEN i + 10 ELSE 0

\* 'credit_card': r'\b\d{4}[-\s]?\d{4}[-\s]?\d{4}[-\s]?\d{4}\b'
CardSepSet == {"-"} \cup SpaceSet
CreditCardEnd(t, i) ==
    IF ~(Bnd(t, i) /\ DigitsAt(t, i, 4)) THEN 0
    ELSE LET a == SkipOpt(t, i + 4, CardSepSet)
         IN  IF ~DigitsAt(t, a, 4) THEN 0
             ELSE LET b == SkipOpt(t, a + 4, CardSepSet)
                  IN  IF ~DigitsAt(t, b, 4) THEN 0
                      ELSE LET c == SkipOpt(t, b + 4, CardSepSet)
                           IN  IF DigitsAt(t, c, 4) /\ Bnd(t, c + 4) THEN c + 3 ELSE 0

\* 'address': r'\b\d+\s+[\w\s]+(?:street|st|avenue|ave|road|rd|boulevard|blvd|drive|dr|court|ct|lane|ln)\b'
AddressSuffixes ==
    <<"street", "st", "avenue", "ave", "road", "rd", "boulevard", "blvd",
      "drive", "dr", "court", "ct", "lane", "ln">>
\* (?:street|st|...)\b at position q of the lower-cased text: its end, or 0
SuffixEnd(tl, q) ==
    LET ks == { k \in 1..Len(AddressSuffixes) :
                  /\ q + Len(AddressSuffixes[k]) - 1 <= Len(tl)
                  /\ SubSeq(tl, q, q + Len(AddressSuffixes[k]) - 1) = AddressSuffixes[k]
                  /\ Bnd(tl, q + Len(AddressSuffixes[k])) }
    IN  IF ks = {} THEN 0
        ELSE q + Len(AddressSuffixes[CHOOSE k \in ks : \A m \in ks : k <= m]) - 1
\* \d+ and \s+ and [\w\s]+ are greedy: the suffix is the rightmost one that
\* works; [\w\s]+ keeps at least one character, which is the last blank of
\* \s+ only when \s+ has a blank to give back
AddressEnd(t, i) ==
    IF ~Bnd(t, i) THEN 0
    ELSE LET tl == Lower(t)
             e1 == RunEnd(t, i, DigitSet)
             e2 == RunEnd(t, e1 + 1, SpaceSet)
             e3 == RunEnd(t, e2 + 1, WordSet \cup SpaceSet)
             first == IF e2 > e1 + 1 THEN e2 ELSE e2 + 1
             ps == { p \in first..e3 : SuffixEnd(tl, p + 1) # 0 }
         IN  IF e1 < i \/ e2 < e1 + 1 \/ ps = {} THEN 0
             ELSE SuffixEnd(tl, Max(ps) + 1)

\* 'ip_address': r'\b(?:\d{1,3}\.){3}\d{1,3}\b'
\* \d{1,3}\. at position p: the position after the dot, or 0
OctetDot(t, p) ==
    LET e == RunEnd(t, p, DigitSet)
    IN  IF e >= p /\ e - p + 1 <= 3 /\ Ch(t, e + 1) = "." THEN e + 2 ELSE 0
IpAddressEnd(t, i) ==
    IF ~Bnd(t, i) THEN 0
    ELSE LET a == OctetDot(t, i)
             b == IF a = 0 THEN 0 ELSE OctetDot(t, a)
             c == IF b = 0 THEN 0 ELSE OctetDot(t, b)
             e == RunEnd(t, c, DigitSet)
         IN  IF c # 0 /\ e >= c /\ e - c + 1 <= 3 /\ Bnd(t, e + 1) THEN e ELSE 0

\* 'api_key': r'\b[A-Za-z0-9]{32,}\b'
ApiKeyMinLen == 32
ApiKeyEnd(t, i) ==
    IF ~Bnd(t, i) THEN 0
    ELSE LET e == RunEnd(t, i, AlnumSet)
         IN  IF e - i + 1 >= ApiKeyMinLen /\ Bnd(t, e + 1) THEN e ELSE 0

\* [A-Z][a-z]+ at position p: its end, or 0
CapWordEnd(t, p) ==
    IF Ch(t, p) \notin UpperSet THEN 0
    ELSE LET e == RunEnd(t, p + 1, LowerSet) IN IF e >= p + 1 THEN e ELSE 0
\* \s+[A-Z][a-z]+ at position p: its end, or 0
SpaceCapWordEnd(t, p) ==
    LET s == RunEnd(t, p, SpaceSet) IN IF s >= p THEN CapWordEnd(t, s + 1) ELSE 0
\* (?:\s+[A-Z][a-z]+)*\b after a word that ends at e: as many words as
\* possible, giving back the last ones until a \b is reached; 0 when none is
RECURSIVE MoreNamesEnd(_, _)
MoreNamesEnd(t, e) ==
    LET n == SpaceCapWordEnd(t, e + 1)
        r == IF n = 0 THEN 0 ELSE MoreNamesEnd(t, n)
    IN  IF r # 0 THEN r ELSE IF Bnd(t, e + 1) THEN e ELSE 0

\* 'person_name': r'\b(?:Dr\.|Mr\.|Mrs\.|Ms\.|Prof\.)\s+[A-Z][a-z]+(?:\s+[A-Z][a-z]+)*\b'
Honorifics == <<"Dr.", "Mr.", "Mrs.", "Ms.", "Prof.">>
PersonNameEnd(t, i) ==
    LET hs == { k \in 1..Len(Honorifics) :
                  /\ i + Len(Honorifics[k]) - 1 <= Len(t)
                  /\ SubSeq(t, i, i + Len(Honorifics[k]) - 1) = Honorifics[k] }
    IN  IF ~Bnd(t, i) \/ hs = {} THEN 0
        ELSE LET h == Honorifics[CHOOSE k \in hs : \A m \in hs : k <= m]
                 n == SpaceCapWordEnd(t, i + Len(h))
             IN  IF n = 0 THEN 0 ELSE MoreNamesEnd(t, n)

\* 'full_name': r'\b[A-Z][a-z]+\s+[A-Z][a-z]+\b'
FullNameEnd(t, i) ==
    IF ~Bnd(t, i) THEN 0
    ELSE LET a == CapWordEnd(t, i)
             b == IF a = 0 THEN 0 ELSE SpaceCapWordEnd(t, a + 1)
         IN  IF b # 0 /\ Bnd(t, b + 1) THEN b ELSE 0

\* self.privacy_patterns and self.sensitive_entities, in dictionary order
privacy_patterns == <<"email", "phone", "ssn", "credit_card", "address", "ip_address", "api_key">>
sensitive_entities == <<"person_name", "full_name">>

MatchEnd(rule, t, i) ==
    CASE rule = "email" -> EmailEnd(t, i)
      [] rule = "phone" -> PhoneEnd(t, i)
      [] rule = "ssn" -> SsnEnd(t, i)
      [] rule = "credit_card" -> CreditCardEnd(t, i)
      [] rule = "address" -> AddressEnd(t, i)
      [] rule = "ip_address" -> IpAddressEnd(t, i)
      [] rule = "api_key" -> ApiKeyEnd(t, i)
      [] rule = "person_name" -> PersonNameEnd(t, i)
      [] rule = "full_name" -> FullNameEnd(t, i)

\* [m.group() for m in re.finditer(pattern, t)]: leftmost, non-overlapping
RECURSIVE FindIterFrom(_, _, _)
FindIterFrom(rule, t, i) ==
    LET starts == { j \in i..Len(t) : MatchEnd(rule, t, j) # 0 }
    IN  IF starts = {} THEN <<>>
        ELSE LET j == Min(starts)
                 e == MatchEnd(rule, t, j)
             IN  <<SubSeq(t, j, e)>> \o FindIterFrom(rule, t, e + 1)
FindIter(rule, t) == FindIterFrom(rule, t, 1)

\* str.upper()
UpperCh(c) ==
    IF c \in LowerSet
    THEN LET k == CHOOSE j \in 1..Len(Lowers) : SubSeq(Lowers, j, j) = c IN SubSeq(Uppers, k, k)
    ELSE c
RECURSIVE Upper(_)
Upper(t) ==
    IF Len(t) = 0 THEN ""
    ELSE IF Len(t) = 1 THEN UpperCh(t)
    ELSE LET h == Len(t) \div 2
         IN  Upper(SubSeq(t, 1, h)) \o Upper(SubSeq(t, h + 1, Len(t)))

\* f"[{pii_type.upper()}_REDACTED]"
PiiToken(pii_type) == "[" \o Upper(pii_type) \o "_REDACTED]"
\* f"[{entity_type.upper()}_{hashed}]"
EntityToken(entity_type, original) == "[" \o Upper(entity_type) \o "_" \o Hash8(original) \o "]"

RuleToken(rule, isEntity, original) ==
    IF isEntity THEN EntityToken(rule, original) ELSE PiiToken(rule)

\* "for match in matches": every match, taken from the text as it was when the
\* rule started, is replaced wherever its text occurs in the current text.
\* st = [text, redactions, log]; log records each replacement made
ReplaceOne(st, rule, original, redacted) ==
    [text |-> Replace(st.text, original, redacted),
     redactions |-> st.redactions \cup {rule},
     log |-> Append(st.log, [type |-> rule, original |-> original, token |-> redacted])]

RECURSIVE ReplaceMatches(_, _, _, _, _)
ReplaceMatches(st, rule, isEntity, matches, k) ==
    IF Len(st.text) >= 0 /\ k <= Len(matches)
    THEN ReplaceMatches(ReplaceOne(st, rule, matches[k], RuleToken(rule, isEntity, matches[k])),
                        rule, isEntity, matches, k + 1)
    ELSE st

\* one rule of a table applied to the state of the redaction
ApplyRule(st, rule, isEntity) ==
    ReplaceMatches(st, rule, isEntity, FindIter(rule, st.text), 1)

RECURSIVE ApplyRules(_, _, _, _)
ApplyRules(st, rules, isEntity, n) ==
    IF Len(st.text) >= 0 /\ n <= Len(rules)
    THEN ApplyRules(ApplyRule(st, rules[n], isEntity), rules, isEntity, n + 1)
    ELSE st

\* the two loops of redact_pii in the other order: entity rules, then PII rules
redact_pii_entities_first(privacy, text) ==
    IF ~privacy THEN [text |-> text, redactions |-> {}, log |-> <<>>]
    ELSE ApplyRules(ApplyRules([text |-> text, redactions |-> {}, log |-> <<>>],
                               sensitive_entities, TRUE, 1),
                    privacy_patterns, FALSE, 1)

\* redact_pii(text) -> (redacted_text, list(set(redactions))), with the
\* replacements it made; the PII rules first, then the entity rules
redact_pii(privacy, text) ==
    IF ~privacy THEN [text |-> text, redactions |-> {}, log |-> <<>>]
    ELSE ApplyRules(ApplyRules([text |-> text, redactions |-> {}, log |-> <<>>],
                               privacy_patterns, FALSE, 1),
                    sensitive_entities, TRUE, 1)

(***************************************************************************)
(* ConversationQualityAnalyzer.analyze_task_completion                     *)
(***************************************************************************)
completion_patterns ==
  <<
    [name |-> "completed", patterns |-> <<
        WB(<<"done", "finished", "completed", "solved", "fixed", "built", "created">>),
        WB(<<"works", "working", "success", "accomplished">>),
        WB(<<"thank you", "thanks", "perfect", "exactly what i needed">>),
        <<NonAsciiAlt("U2705"), NonAsciiAlt("U2713"), NonAsciiAlt("U2611")>>
     >>],
    [name |-> "abandoned", patterns |-> <<
        WB(<<"give up", "never mind", "forget it", "doesn't matter">>),
        WB(<<"not worth it", "too complicated">>)
     >>],
    [name |-> "blocked", patterns |-> <<
        WB(<<"can't", "won't", "unable", "impossible", "blocked">>),
        WB(<<"limitation", "restriction", "not supported">>)
     >>]
  >>

\* ' '.join(conversation_messages)
RECURSIVE JoinFrom(_, _, _)
JoinFrom(parts, sep, k) ==
    IF k > Len(parts) THEN ""
    ELSE IF k = Len(parts) THEN parts[k]
    ELSE parts[k] \o sep \o JoinFrom(parts, sep, k + 1)
Join(sep, parts) == JoinFrom(parts, sep, 1)

\* scores[status]: the findall counts of the patterns of each status, added up
CompletionScores(full_text) ==
    [n \in 1..Len(completion_patterns) |->
        PatternScore(completion_patterns[n].patterns, 1, full_text)]

CompletionIndex(name) ==
    CHOOSE n \in 1..Len(completion_patterns) : completion_patterns[n].name = name

\* the decision with the 'blocked' branch tested before the 'abandoned' one
CompletionStatusBlockedFirst(completed, abandoned, blocked) ==
    IF completed > abandoned + blocked THEN "completed"
    ELSE IF blocked > 0 THEN "blocked"
    ELSE IF abandoned > 0 THEN "abandoned"
    ELSE "in_progress"

\* the if / elif / elif / else of the overall status
CompletionStatus(completed, abandoned, blocked) ==
    IF completed > abandoned + blocked THEN "completed"
    ELSE IF abandoned > 0 THEN "abandoned"
    ELSE IF blocked > 0 THEN "blocked"
    ELSE "in_progress"

\* the maximum divided by the plain sum of the scores
ConfidenceOverSum(scores) ==
    [num |-> Max({ scores[n] : n \in DOMAIN scores }),
     den |-> scores[1] + scores[2] + scores[3]]

\* max(scores.values()) / (sum(scores.values()) + 1), as num / den
Confidence(scores) ==
    [num |-> Max({ scores[n] : n \in DOMAIN scores }),
     den |-> scores[1] + scores[2] + scores[3] + 1]

analyze_task_completion(conversation_messages) ==
    LET full_text == Lower(Join(" ", conversation_messages))
        scores == CompletionScores(full_text)
    IN  [status |-> CompletionStatus(scores[CompletionIndex("completed")],
                                     scores[CompletionIndex("abandoned")],
                                     scores[CompletionIndex("blocked")]),
         scores |-> scores,
         confidence |-> Confidence(scores)]

(***************************************************************************)
(* State.  The export and the position of parse_conversations in it, the   *)
(* rows built so far, and the results of the calls that are checked on     *)
(* their own inputs (classification, redaction, task completion).          *)
(***************************************************************************)
VARIABLES
    data,        \* self.data: the loaded export
    pc,          \* position of the run: conv / msg / parsed / stats / raised
    ci,          \* index of the conversation being parsed (1-based)
    mi,          \* idx of enumerate(messages) (0-based, as in the code)
    rows,        \* the list "rows" of parse_conversations, later self.df
    src,         \* for each row, <<ci, idx>> of the message it was built from
    stats,       \* the dictionary returned by generate_statistics
    err,         \* the exception that ended the run, "none" if there is none
    text,        \* the text handed to the classifiers
    cpc,         \* which classifier runs next: topics / sentiment / failures / done
    topics,      \* result of detect_topics(text)
    sentiment,   \* result of detect_sentiment(text)
    failures,    \* result of detect_failures(text): detected and severities
    enable_privacy, \* self.enable_privacy, fixed at construction
    rtext,       \* the text handed to redact_pii
    rpc,         \* redaction position: idle / redacted / reredacted
    redacted,    \* redact_pii(rtext)
    reredacted,  \* redact_pii(redacted text)
    tokenlog,    \* every (type, original, token) replacement made so far
    calls,       \* number of texts redacted so far
    rlog,        \* the replacements of the latest redact_pii call, in order
    qmsgs,       \* conversation_messages handed to analyze_task_completion
    qres,        \* its result, NoResult before the call
    enable_quality_analysis, \* self.enable_quality_analysis of the advanced analyzer
    tdf,         \* self.df of TemporalEvolutionAnalyzer: the frame it was built on
    min_days,    \* argument of identify_conversation_streaks
    tpc,         \* temporal analysis position: idle / ready / done
    tres         \* the value the temporal method returned

vars == <<data, pc, ci, mi, rows, src, stats, err, text, cpc, topics, sentiment, failures,
          enable_privacy, rtext, rpc, redacted, reredacted, tokenlog, calls, rlog,
          qmsgs, qres, enable_quality_analysis, tdf, min_days, tpc, tres>>
parseVars == <<data, pc, ci, mi, rows, src, stats, err>>
classifyVars == <<text, cpc, topics, sentiment, failures>>
redactVars == <<enable_privacy, rtext, rpc, redacted, reredacted, tokenlog, calls, rlog>>
qualityVars == <<qmsgs, qres>>
advancedVars == <<enable_quality_analysis>>
temporalVars == <<tdf, min_days, tpc, tres>>

\* the values of the variables a specification does not use
ParseIdle ==
    /\ data = <<>> /\ pc = "idle" /\ ci = 0 /\ mi = 0
    /\ rows = <<>> /\ src = <<>> /\ stats = <<>> /\ err = "none"
NoFailures == [detected |-> <<>>, severities |-> <<>>]
ClassifyIdle ==
    /\ text = "" /\ cpc = "idle" /\ topics = <<>> /\ sentiment = ""
    /\ failures = NoFailures
RedactIdle ==
    /\ enable_privacy = TRUE
    /\ rtext = "" /\ rpc = "idle" /\ redacted = "" /\ reredacted = ""
    /\ tokenlog = {} /\ calls = 0 /\ rlog = <<>>
NoResult == [status |-> "none", scores |-> <<>>]
QualityIdle == qmsgs = <<>> /\ qres = NoResult
AdvancedIdle == enable_quality_analysis = TRUE
TemporalIdle == tdf = <<>> /\ min_days = 0 /\ tpc = "idle" /\ tres = <<>>

\* the texts made of at most n words of a vocabulary, joined by single spaces
RECURSIVE Phrases(_, _)
Phrases(words, n) ==
    IF n = 0 THEN {""}
    ELSE LET shorter == Phrases(words, n - 1)
         IN  shorter \cup { IF p = "" THEN w ELSE p \o " " \o w : p \in shorter, w \in words }

(***************************************************************************)
(* Classification of one text: the calls of lines 393-394, in code order.  *)
(***************************************************************************)
MaxWords == 2
ClassifyWords ==
    {"urgent", "thanks", "Perfect", "error", "bug", "python", "API", "hello",
     "why", "sorry", "wrong", "!!", "now", "model", "go", "c++", "what when"}
ClassifyTexts == Phrases(ClassifyWords, MaxWords)

InitClassify ==
    /\ text \in ClassifyTexts
    /\ cpc = "topics" /\ topics = <<>> /\ sentiment = "" /\ failures = NoFailures
    /\ ParseIdle /\ RedactIdle /\ QualityIdle /\ TemporalIdle /\ AdvancedIdle

DetectTopics ==
    /\ cpc = "topics"
    /\ topics' = detect_topics(text)
    /\ cpc' = "sentiment"
    /\ UNCHANGED <<text, sentiment, failures, parseVars, redactVars, qualityVars, temporalVars, advancedVars>>

DetectSentiment ==
    /\ cpc = "sentiment"
    /\ sentiment' = detect_sentiment(text)
    /\ cpc' = "done"
    /\ UNCHANGED <<text, topics, failures, parseVars, redactVars, qualityVars, temporalVars, advancedVars>>

NextClassify == DetectTopics \/ DetectSentiment
SpecClassify == InitClassify /\ [][NextClassify]_vars

(***************************************************************************)
(* detect_failures on one text: the call of line 395 for an assistant      *)
(***************************************************************************)
MaxFailureWords == 2
FailureWords ==
    {"wrong", "False", "broken", "again", "hello", "api error", "markdown", "forgot to use"}
FailureTexts == Phrases(FailureWords, MaxFailureWords)

InitFailures ==
    /\ text \in FailureTexts
    /\ cpc = "failures" /\ topics = <<>> /\ sentiment = "" /\ failures = NoFailures
    /\ ParseIdle /\ RedactIdle /\ QualityIdle /\ TemporalIdle /\ AdvancedIdle

DetectFailures ==
    /\ cpc = "failures"
    /\ failures' = detect_failures(text)
    /\ cpc' = "done"
    /\ UNCHANGED <<text, topics, sentiment, parseVars, redactVars, qualityVars, temporalVars, advancedVars>>

NextFailures == DetectFailures
SpecFailures == InitFailures /\ [][NextFailures]_vars

(***************************************************************************)
(* Properties of the classifiers                                           *)
(***************************************************************************)
\* the topics with a pattern that re.search finds in the lowered text
MatchingTopics(t) ==
    { n \in 1..Len(topic_patterns) :
        \E j \in 1..Len(topic_patterns[n].patterns) :
            Search(topic_patterns[n].patterns[j], Lower(t)) }
Occurrences(seq, x) == Cardinality({ k \in 1..Len(seq) : seq[k] = x })

\* C3: detect_topics never returns an empty list; it returns exactly
\* ['General'] iff no pattern of any topic matches the text, and otherwise it
\* holds every matching topic exactly once, no other topic, and not 'General'.
C3_TopicTotality ==
    cpc \in {"sentiment", "done"} =>
        LET matching == MatchingTopics(text)
        IN  /\ topics # <<>>
            /\ (topics = <<"General">>) <=> (matching = {})
            /\ matching # {} =>
                 /\ \A n \in matching : Occurrences(topics, topic_patterns[n].name) = 1
                 /\ \A k \in 1..Len(topics) :
                      /\ topics[k] # "General"
                      /\ \E n \in matching : topic_patterns[n].name = topics[k]

\* a text matching two patterns of one topic and a pattern of another topic
C3_Witness ==
    /\ cpc = "done"
    /\ text = "python error"
    /\ topics = <<"Technical/Coding", "Debugging">>

UrgentMatches(t) == SentimentScores(t)[SentimentIndex("Urgent")]
SentimentLabels == { sentiment_patterns[n].name : n \in 1..Len(sentiment_patterns) }

\* C4: detect_sentiment returns exactly one label of the table; the label is
\* 'Urgent' whenever an Urgent pattern matches, whatever the other categories
\* score, and is never 'Urgent' when no Urgent pattern matches.
C4_UrgentOverride ==
    cpc = "done" =>
        /\ sentiment \in SentimentLabels
        /\ (UrgentMatches(text) > 0) <=> (sentiment = "Urgent")

\* one Urgent match against one match of an earlier category
C4_Witness ==
    /\ cpc = "done"
    /\ text = "thanks now"
    /\ UrgentMatches(text) = 1
    /\ SentimentScores(text)[SentimentIndex("Positive")] = 1
    /\ sentiment = "Urgent"

(***************************************************************************)
(* The export.  A JSON field is absent, null, or holds a value: a string   *)
(* for the scalar fields, a list of messages for the message lists.        *)
(***************************************************************************)
Absent == [kind |-> "absent", val |-> ""]
Null == [kind |-> "null", val |-> ""]
Str(s) == [kind |-> "str", val |-> s]
NoList == [kind |-> "absent", val |-> <<>>]
NullList == [kind |-> "null", val |-> <<>>]
List(l) == [kind |-> "list", val |-> l]

\* dict.get(key, default): the default only when the key is absent
Get(field, default) == IF field.kind = "absent" THEN default ELSE field
\* bool(x) of a field value: None, '' and [] are falsy
Truthy(field) == field.kind \in {"str", "list"} /\ Len(field.val) > 0
\* repr(s) of a text: single quotes, double quotes when the text holds a single
\* quote and no double quote; the backslash, the quote in use and the control
\* characters are escaped
ReprQuote(s) ==
    IF CountChar(s, "'") > 0 /\ CountChar(s, "\"") = 0 THEN "\"" ELSE "'"
Repr(s) ==
    LET q == ReprQuote(s)
        a == Replace(s, "\\", "\\\\")
        b == Replace(a, q, "\\" \o q)
        c == Replace(b, "\n", "\\n")
        d == Replace(c, "\t", "\\t")
        e == Replace(d, "\r", "\\r")
        f == Replace(e, "\f", "\\x0c")
    IN  q \o f \o q
\* str(x): 'None' for None, the text itself, '[' repr, repr, ... ']' for a
\* list of texts
StrOf(field) ==
    IF field.kind = "null" THEN Str("None")
    ELSE IF field.kind = "list"
         THEN Str("[" \o Join(", ", [k \in 1..Len(field.val) |-> Repr(field.val[k])]) \o "]")
    ELSE field
\* a or b
Or(a, b) == IF Truthy(a) THEN a ELSE b

\* conv.get('chat_messages', []) or conv.get('messages', [])
MessagesOf(conv) == Or(Get(conv.chat_messages, List(<<>>)), Get(conv.messages, List(<<>>)))
\* message.get('text', '') or str(message.get('content', ''))
ContentOf(message) == Or(Get(message.text, Str("")), StrOf(Get(message.content, Str(""))))
\* message.get('sender', message.get('role', 'unknown'))
RoleOf(message) == Get(message.sender, Get(message.role, Str("unknown")))

MinContentLen == 3
\* the length filter without the strip()
SkippedUntrimmed(content) == ~Truthy(content) \/ Len(content.val) < MinContentLen
\* "if not content or len(content.strip()) < 3: continue"
Skipped(content) == ~Truthy(content) \/ Len(Strip(content.val)) < MinContentLen

\* role in ['assistant', 'bot']
IsAssistant(role) == role.kind = "str" /\ role.val \in {"assistant", "bot"}
\* role.isin(['user', 'human'])
IsUser(role) == role.kind = "str" /\ role.val \in {"user", "human"}

\* detect_failures applied to every role
FailuresAnyRole(role, content) == detect_failures(content)
\* self.detect_failures(content) if role in ['assistant', 'bot'] else ([], [])
FailuresFor(role, content) ==
    IF IsAssistant(role) THEN detect_failures(content)
    ELSE [detected |-> <<>>, severities |-> <<>>]

\* max(severities): the severities in the order of Python's string comparison
SeverityOrder == <<"critical", "high", "low", "medium">>
SeverityRank(s) == CHOOSE r \in 1..Len(SeverityOrder) : SeverityOrder[r] = s
MaxSeverity(severities) ==
    IF severities = <<>> THEN "none"
    ELSE SeverityOrder[Max({ SeverityRank(severities[k]) : k \in 1..Len(severities) })]

PreviewLen == 300
Prefix(t, n) == IF Len(t) <= n THEN t ELSE SubSeq(t, 1, n)

\* the dictionary appended to rows, given the results of the classifiers
RowOf(conv, idx, message, content, role, tps, sentiment_, f) ==
        [conversation_id |-> Get(conv.id, Str("unknown")),
         conversation_name |-> Get(conv.name, Str("Untitled")),
         message_index |-> idx,
         timestamp |-> Get(message.created_at, Get(conv.created_at, Str(""))),
         role |-> role,
         model |-> Get(conv.model, Str("unknown")),
         content_preview |-> Prefix(content, PreviewLen),
         content_length |-> Len(content),
         word_count |-> WordCount(content),
         topics |-> Join("|", tps),
         topic_count |-> Len(tps),
         sentiment |-> sentiment_,
         has_failure |-> Len(f.detected) > 0,
         failure_types |-> IF f.detected # <<>> THEN Join("|", f.detected) ELSE "None",
         failure_count |-> Len(f.detected),
         failure_severities |-> IF f.severities # <<>> THEN Join("|", f.severities) ELSE "None",
         max_failure_severity |-> MaxSeverity(f.severities)]

\* the classifiers are handed the text of the first message of the
\* conversation instead of the text of the message itself
ClassifiedRowOfFirst(conv, idx, message, content, role) ==
    RowOf(conv, idx, message, content, role,
          detect_topics(ContentOf(MessagesOf(conv).val[1]).val),
          detect_sentiment(ContentOf(MessagesOf(conv).val[1]).val),
          FailuresFor(role, ContentOf(MessagesOf(conv).val[1]).val))

\* lines 393-415: the message is classified and its row built
ClassifiedRow(conv, idx, message, content, role) ==
    RowOf(conv, idx, message, content, role, detect_topics(content),
          detect_sentiment(content), FailuresFor(role, content))
MakeRow(conv, idx, message) ==
    ClassifiedRow(conv, idx, message, ContentOf(message).val, RoleOf(message))

(***************************************************************************)
(* parse_conversations and generate_statistics on a loaded export          *)
(***************************************************************************)
MaxConvs == 2
MaxMsgs == 2
MaxBareMsgs == 1

Message(t, c, s, r, at) ==
    [text |-> t, content |-> c, sender |-> s, role |-> r, created_at |-> at]

\* messages that differ in where the text and the role come from, in whether
\* the text survives the length filter, and in the labels the text earns
MsgPool ==
    { Message(Str("wrong, fix now"), Absent, Str("user"), Absent, Str("2024-01-02")),
      Message(Absent, Str("Sorry, wrong"), Absent, Str("bot"), Absent),
      Message(Str(" a "), Str("unused"), Str("assistant"), Absent, Absent),
      Message(Null, Null, Null, Str("assistant"), Null),
      Message(Absent, Absent, Absent, Absent, Absent) }

\* the lists of at most n elements of S
RECURSIVE ListsUpTo(_, _)
ListsUpTo(S, n) ==
    IF n = 0 THEN {<<>>}
    ELSE LET shorter == ListsUpTo(S, n - 1)
         IN  shorter \cup { Append(l, x) : l \in shorter, x \in S }

MsgLists == ListsUpTo(MsgPool, MaxMsgs)

\* a conversation with every field present, its messages under 'chat_messages'
FullConv(l) ==
    [id |-> Str("c1"), created_at |-> Str("2024-01-01"), updated_at |-> Str("2024-01-03"),
     name |-> Str("Chat"), model |-> Str("claude"),
     chat_messages |-> List(l), messages |-> NoList]
\* a conversation with absent and null fields, its messages under 'messages'
BareConv(l) ==
    [id |-> Absent, created_at |-> Absent, updated_at |-> Null,
     name |-> Null, model |-> Absent,
     chat_messages |-> NullList, messages |-> List(l)]
\* a conversation whose message list is null
NullMessagesConv ==
    [id |-> Str("c2"), created_at |-> Absent, updated_at |-> Absent,
     name |-> Absent, model |-> Null,
     chat_messages |-> NoList, messages |-> NullList]

\* messages whose text or content is a list: the content of a Claude export
\* can be a list of parts
ListMsgPool ==
    { Message(Absent, List(<<"it's wrong">>), Absent, Str("assistant"), Absent),
      Message(List(<<"wrong">>), Str("unused"), Str("user"), Absent, Absent) }

ConvPool ==
    { FullConv(l) : l \in MsgLists }
        \cup { BareConv(l) : l \in ListsUpTo(MsgPool \cup ListMsgPool, MaxBareMsgs) }
        \cup { NullMessagesConv }

Exports ==
    { [conversations |-> List(cs)] : cs \in ListsUpTo(ConvPool, MaxConvs) }
        \cup { [conversations |-> NoList], [conversations |-> NullList] }

\* self.data.get('conversations', []): None when the key holds null
ConvsOf(d) == Get(d.conversations, List(<<>>))

CurConv == ConvsOf(data).val[ci]
CurMessages == MessagesOf(CurConv)
\* the messages of the conversation read from the end
CurMessageReversed == CurMessages.val[Len(CurMessages.val) - mi]
\* message of "for idx, message in enumerate(messages)" at idx = mi
CurMessage == CurMessages.val[mi + 1]

InitParse ==
    /\ data \in Exports
    /\ pc = "conv" /\ ci = 1 /\ mi = 0
    /\ rows = <<>> /\ src = <<>> /\ stats = <<>> /\ err = "none"
    /\ ClassifyIdle /\ RedactIdle /\ QualityIdle /\ TemporalIdle /\ AdvancedIdle

\* line 374-383: the next conversation, its fields and its message list read
BeginConversation ==
    /\ pc = "conv" /\ ConvsOf(data).kind = "list" /\ ci <= Len(ConvsOf(data).val)
    /\ CurMessages.kind = "list"
    /\ pc' = "msg" /\ mi' = 0
    /\ UNCHANGED <<data, ci, rows, src, stats, err, classifyVars, redactVars, qualityVars, temporalVars, advancedVars>>

\* line 374: "for conv in None" raises TypeError
RaiseOnNullConversations ==
    /\ pc = "conv" /\ ConvsOf(data).kind = "null"
    /\ pc' = "raised" /\ err' = "TypeError"
    /\ UNCHANGED <<data, ci, mi, rows, src, stats, classifyVars, redactVars, qualityVars, temporalVars, advancedVars>>

\* line 383: enumerate(None) raises TypeError and ends parse_conversations
RaiseOnNullMessages ==
    /\ pc = "conv" /\ ConvsOf(data).kind = "list" /\ ci <= Len(ConvsOf(data).val)
    /\ CurMessages.kind = "null"
    /\ pc' = "raised" /\ err' = "TypeError"
    /\ UNCHANGED <<data, ci, mi, rows, src, stats, classifyVars, redactVars, qualityVars, temporalVars, advancedVars>>

\* lines 384-390: a message that fails the length filter is passed over
SkipMessage ==
    /\ pc = "msg" /\ mi < Len(CurMessages.val)
    /\ ContentOf(CurMessage).kind = "str"
    /\ Skipped(ContentOf(CurMessage))
    /\ mi' = mi + 1
    /\ UNCHANGED <<data, pc, ci, rows, src, stats, err, classifyVars, redactVars, qualityVars, temporalVars, advancedVars>>

\* line 389: the text of the message is a non-empty list, which has no
\* strip(): AttributeError
RaiseOnListText ==
    /\ pc = "msg" /\ mi < Len(CurMessages.val)
    /\ ContentOf(CurMessage).kind = "list"
    /\ pc' = "raised" /\ err' = "AttributeError"
    /\ UNCHANGED <<data, ci, mi, rows, src, stats, classifyVars, redactVars, qualityVars, temporalVars, advancedVars>>

\* lines 384-415: a message that passes the filter is classified and appended
AppendRow ==
    /\ pc = "msg" /\ mi < Len(CurMessages.val)
    /\ ContentOf(CurMessage).kind = "str"
    /\ ~Skipped(ContentOf(CurMessage))
    /\ rows' = Append(rows, MakeRow(CurConv, mi, CurMessage))
    /\ src' = Append(src, <<ci, mi>>)
    /\ mi' = mi + 1
    /\ UNCHANGED <<data, pc, ci, stats, err, classifyVars, redactVars, qualityVars, temporalVars, advancedVars>>

\* the inner loop is exhausted: on to the next conversation
EndConversation ==
    /\ pc = "msg" /\ mi = Len(CurMessages.val)
    /\ pc' = "conv" /\ ci' = ci + 1
    /\ UNCHANGED <<data, mi, rows, src, stats, err, classifyVars, redactVars, qualityVars, temporalVars, advancedVars>>

\* lines 417-419: self.df = pd.DataFrame(rows); return
BuildDataFrame ==
    /\ pc = "conv" /\ ConvsOf(data).kind = "list" /\ ci > Len(ConvsOf(data).val)
    /\ pc' = "parsed"
    /\ UNCHANGED <<data, ci, mi, rows, src, stats, err, classifyVars, redactVars, qualityVars, temporalVars, advancedVars>>

\* len(self.df[self.df['role'].isin(['user', 'human'])])
UserMessages(df) == Cardinality({ k \in 1..Len(df) : IsUser(df[k].role) })
\* len(self.df[self.df['role'].isin(['assistant', 'bot'])])
AssistantMessages(df) == Cardinality({ k \in 1..Len(df) : IsAssistant(df[k].role) })
\* len(self.df[self.df['has_failure']])
MessagesWithFailures(df) == Cardinality({ k \in 1..Len(df) : df[k].has_failure })

\* the dictionary of generate_statistics; failure_rate is kept as the
\* fraction num / den of the code's "failures / assistants * 100"
Statistics(df) ==
    [total_conversations |->
        Cardinality({ df[k].conversation_id : k \in 1..Len(df) } \ {Null}),
     total_messages |-> Len(df),
     user_messages |-> UserMessages(df),
     assistant_messages |-> AssistantMessages(df),
     sentiment_distribution |->
        [s \in { df[k].sentiment : k \in 1..Len(df) } |->
            Cardinality({ k \in 1..Len(df) : df[k].sentiment = s })],
     messages_with_failures |-> MessagesWithFailures(df),
     failure_rate |-> [num |-> MessagesWithFailures(df) * 100,
                       den |-> AssistantMessages(df)]]

\* generate_statistics: self.df['conversation_id'] of a frame built from no
\* rows raises KeyError (such a frame has no columns); the failure rate
\* divides by the number of assistant rows and raises ZeroDivisionError on 0
GenerateStatistics ==
    /\ pc = "parsed"
    /\ pc' = "stats"
    /\ IF rows = <<>> THEN err' = "KeyError" /\ stats' = stats
       ELSE IF AssistantMessages(rows) = 0
            THEN err' = "ZeroDivisionError" /\ stats' = stats
            ELSE err' = err /\ stats' = Statistics(rows)
    /\ UNCHANGED <<data, ci, mi, rows, src, classifyVars, redactVars, qualityVars, temporalVars, advancedVars>>

Next ==
    \/ RaiseOnNullConversations
    \/ BeginConversation
    \/ RaiseOnNullMessages
    \/ SkipMessage
    \/ RaiseOnListText
    \/ AppendRow
    \/ EndConversation
    \/ BuildDataFrame
    \/ GenerateStatistics
Spec == InitParse /\ [][Next]_vars

(***************************************************************************)
(* Properties of parse_conversations and generate_statistics               *)
(***************************************************************************)
\* the original message a row was built from
SourceConv(k) == ConvsOf(data).val[src[k][1]]
SourceMessage(k) == MessagesOf(SourceConv(k)).val[src[k][2] + 1]

\* <<c, i>> of every message the loops have passed so far
Passed ==
    { <<c, i>> \in (1..Len(ConvsOf(data).val)) \X (0..(MaxMsgs + 1)) :
        /\ i < Len(MessagesOf(ConvsOf(data).val[c]).val)
        /\ c < ci \/ (c = ci /\ pc \in {"msg", "raised"} /\ i < mi) }
Emitted == { src[k] : k \in 1..Len(src) }
MessageAt(p) == MessagesOf(ConvsOf(data).val[p[1]]).val[p[2] + 1]
TrimmedLen(message) == Len(Strip(ContentOf(message).val))

\* C5: a row whose role is neither 'assistant' nor 'bot' carries no failure
\* label and no severity, whatever its text contains.
C5_FailureRoleScoping ==
    \A k \in 1..Len(rows) :
        ~IsAssistant(rows[k].role) =>
            /\ rows[k].has_failure = FALSE
            /\ rows[k].failure_count = 0
            /\ rows[k].failure_types = "None"
            /\ rows[k].failure_severities = "None"

\* a user row whose text matches a failure pattern, next to an assistant row
\* that was labelled
C5_Witness ==
    /\ pc = "parsed"
    /\ \E k \in 1..Len(rows) :
        /\ rows[k].role = Str("user")
        /\ rows[k].content_preview = "wrong, fix now"
        /\ detect_failures(rows[k].content_preview).detected = <<"Hallucination">>
        /\ rows[k].failure_count = 0
    /\ \E k \in 1..Len(rows) :
        /\ rows[k].role = Str("bot")
        /\ rows[k].failure_types = "Hallucination"

\* what makes parse_conversations raise: a null list of conversations, a null
\* list of messages, a message whose text is a non-empty list
RaiseCause ==
    \/ ConvsOf(data).kind = "null"
    \/ CurMessages.kind = "null"
    \/ ContentOf(CurMessage).kind = "list"

\* C6: a message the loop has passed has a row iff its resolved text, trimmed,
\* has at least 3 characters; passing over a shorter one raises nothing; and
\* every returned row is the row of its own message alone, whichever other
\* messages were dropped or kept around it.
C6_RowIffTrimmedLength ==
    /\ \A p \in Passed : (p \in Emitted) <=> (TrimmedLen(MessageAt(p)) >= 3)
    /\ Emitted \subseteq Passed
    /\ err # "none" /\ pc = "raised" => RaiseCause
    /\ pc = "parsed" =>
         \A k \in 1..Len(rows) :
             rows[k] = MakeRow(SourceConv(k), src[k][2], SourceMessage(k))

\* a text of 3 characters that trims to 1 is dropped between two kept messages
C6_Witness ==
    /\ pc = "parsed" /\ err = "none"
    /\ Len(rows) = 2
    /\ \E p \in Passed :
        /\ ContentOf(MessageAt(p)).val = " a "
        /\ p \notin Emitted
        /\ \E k \in 1..Len(rows) : src[k][1] = p[1] /\ src[k][2] < p[2]
    /\ \E p \in Passed : TrimmedLen(MessageAt(p)) = 0 /\ p \notin Emitted

\* C7: rows follow the input order: conversations in input order, the rows
\* of a conversation contiguous, message_index strictly increasing within a
\* conversation and equal to the position of the message in the original
\* list, dropped messages counted.
C7_OrderPreserved ==
    /\ Len(src) = Len(rows)
    /\ \A j, k \in 1..Len(rows) :
         j < k => \/ src[j][1] < src[k][1]
                  \/ /\ src[j][1] = src[k][1]
                     /\ rows[j].message_index < rows[k].message_index
    /\ \A k \in 1..Len(rows) :
         /\ rows[k].message_index = src[k][2]
         /\ rows[k].message_index < Len(MessagesOf(SourceConv(k)).val)
         /\ rows[k].content_preview =
               Prefix(ContentOf(MessagesOf(SourceConv(k)).val[rows[k].message_index + 1]).val,
                      PreviewLen)
         /\ rows[k].role = RoleOf(MessagesOf(SourceConv(k)).val[rows[k].message_index + 1])

\* two conversations; in the second the first message is dropped, so the
\* only row of it has message_index 1
C7_Witness ==
    /\ pc = "parsed"
    /\ Len(rows) = 3
    /\ src = << <<1, 0>>, <<1, 1>>, <<2, 1>> >>
    /\ rows[1].content_preview # rows[2].content_preview
    /\ rows[3].message_index = 1

\* C8 as the spec states it: parse_conversations never raises, whichever
\* optional field of a conversation or of a message is missing, empty or null
\* (a null list of conversations and a list-valued text are other inputs)
C8_ParsingNeverRaises ==
    pc = "raised" =>
        \/ ConvsOf(data).kind = "null"
        \/ CurMessages.kind = "list" /\ ContentOf(CurMessage).kind = "list"

\* C9 as the spec states it: with no assistant/bot row in the frame,
\* generate_statistics returns normally and reports a failure rate of 0
C9_EmptyCorpusRateZero ==
    pc = "stats" /\ AssistantMessages(rows) = 0 =>
        err = "none" /\ stats.failure_rate.num = 0

(***************************************************************************)
(* redact_pii applied to the texts of a corpus, and to its own output      *)
(***************************************************************************)
MaxPhrases == 2
MaxCalls == 2
RedactPhrases == {"AaAa Aa", "Aa Ba", "Aw Az", "Fj Pa", "Dr. Aa Ba", "a@b.com"}
RedactTexts == Phrases(RedactPhrases, MaxPhrases)

LogSet(log) == { log[k] : k \in 1..Len(log) }

InitRedact ==
    /\ enable_privacy \in BOOLEAN
    /\ rtext = "" /\ rpc = "idle" /\ redacted = "" /\ reredacted = ""
    /\ tokenlog = {} /\ calls = 0 /\ rlog = <<>>
    /\ ParseIdle /\ ClassifyIdle /\ QualityIdle /\ TemporalIdle /\ AdvancedIdle

\* a call returns r: its text goes to out, its replacements to the log
Returned(r, out) ==
    /\ out = r.text
    /\ tokenlog' = tokenlog \cup LogSet(r.log)
    /\ rlog' = r.log

\* redact_pii called on the next text of the corpus
Redact ==
    /\ calls < MaxCalls
    /\ \E t \in RedactTexts :
        /\ rtext' = t
        /\ Returned(redact_pii(enable_privacy, t), redacted')
    /\ reredacted' = ""
    /\ rpc' = "redacted"
    /\ calls' = calls + 1
    /\ UNCHANGED <<enable_privacy, parseVars, classifyVars, qualityVars, temporalVars, advancedVars>>

\* redact_pii called on the text the previous call returned
ReRedact ==
    /\ rpc = "redacted"
    /\ Returned(redact_pii(enable_privacy, redacted), reredacted')
    /\ rpc' = "reredacted"
    /\ UNCHANGED <<enable_privacy, rtext, redacted, calls, parseVars, classifyVars, qualityVars, temporalVars, advancedVars>>

NextRedact == Redact \/ ReRedact
SpecRedact == InitRedact /\ [][NextRedact]_vars

\* C1 as the spec states it: with privacy enabled, redacting a redacted text
\* returns it unchanged
C1_RedactIdempotent ==
    enable_privacy /\ rpc = "reredacted" => reredacted = redacted

EntityTypes == { sensitive_entities[n] : n \in 1..Len(sensitive_entities) }

\* C2 as the spec states it: over all calls, the same name of an entity type
\* always gets the same token, and different names get different tokens
C2_TokensConsistentAndDistinct ==
    \A p, q \in tokenlog :
        p.type \in EntityTypes /\ p.type = q.type =>
            (p.original = q.original) <=> (p.token = q.token)

(***************************************************************************)
(* analyze_task_completion on the messages of one conversation             *)
(***************************************************************************)
MaxQMsgs == 3
QualityTexts == {"Done", "fixed it", "give up", "blocked", "can't", "hello"}
QualityInputs == ListsUpTo(QualityTexts, MaxQMsgs)

InitQuality ==
    /\ qmsgs \in QualityInputs
    /\ qres = NoResult
    /\ ParseIdle /\ ClassifyIdle /\ RedactIdle /\ TemporalIdle /\ AdvancedIdle

AnalyzeTaskCompletion ==
    /\ qres = NoResult
    /\ qres' = analyze_task_completion(qmsgs)
    /\ UNCHANGED <<qmsgs, parseVars, classifyVars, redactVars, temporalVars, advancedVars>>

NextQuality == AnalyzeTaskCompletion
SpecQuality == InitQuality /\ [][NextQuality]_vars

\* C10: the status is 'completed' iff completed > abandoned + blocked;
\* otherwise 'abandoned' iff abandoned > 0, even when blocked > abandoned;
\* otherwise 'blocked' iff blocked > 0; otherwise 'in_progress'.  The scores
\* are the findall counts over the joined, lowered messages.
C10_TaskCompletionDecision ==
    qres # NoResult =>
        LET full_text == Lower(Join(" ", qmsgs))
            completed == PatternScore(completion_patterns[1].patterns, 1, full_text)
            abandoned == PatternScore(completion_patterns[2].patterns, 1, full_text)
            blocked == PatternScore(completion_patterns[3].patterns, 1, full_text)
        IN  /\ qres.scores = <<completed, abandoned, blocked>>
            /\ (qres.status = "completed") <=> (completed > abandoned + blocked)
            /\ completed <= abandoned + blocked =>
                 /\ (qres.status = "abandoned") <=> (abandoned > 0)
                 /\ abandoned = 0 =>
                      /\ (qres.status = "blocked") <=> (blocked > 0)
                      /\ blocked = 0 => qres.status = "in_progress"
            /\ (completed = 2 /\ abandoned = 0 /\ blocked = 1) => qres.status = "completed"

\* completed = 2, abandoned = 0, blocked = 1 gives 'completed'
C10_Witness ==
    /\ qres # NoResult
    /\ qres.scores = <<2, 0, 1>>
    /\ qres.status = "completed"

(***************************************************************************)
(* ConversationQualityAnalyzer.analyze_collaboration_quality               *)
(***************************************************************************)
collaboration_patterns ==
  <<
    [name |-> "high", patterns |-> <<
        WB(<<"let's", "we can", "together", "collaborate", "build on">>),
        WB(<<"great idea", "love it", "perfect", "excellent suggestion">>),
        WB(<<"yes and", "building on that", "expanding">>)
     >>],
    [name |-> "medium", patterns |-> <<
        WB(<<"okay", "sure", "alright", "that works">>),
        WB(<<"makes sense", "i see", "understood">>)
     >>],
    [name |-> "low", patterns |-> <<
        WB(<<"no", "wrong", "don't", "not what i", "missed the point">>),
        WB(<<"unclear", "confused", "doesn't make sense">>)
     >>],
    [name |-> "confrontational", patterns |-> <<
        WB(<<"you're wrong", "that's stupid", "terrible", "useless">>),
        WB(<<"obviously", "clearly you", "don't you understand">>)
     >>]
  >>

\* a message dictionary of the quality analyzer: each key absent or a value
QMessage(c, r, ts) == [content |-> c, role |-> r, timestamp |-> ts]

\* an exception that leaves the function, and an integer, as tagged values
Raised(e) == [kind |-> "raised", val |-> e]
Num(n) == [kind |-> "int", val |-> n]

\* msg.get('content', '').lower(): only a text has lower(); None (a null
\* content) and a list raise AttributeError
CollabText(msg) ==
    IF Get(msg.content, Str("")).kind = "str"
    THEN Str(Lower(Get(msg.content, Str("")).val))
    ELSE Raised("AttributeError")

\* lines 112-114 for one message and one category: one point for every
\* pattern of the category that re.search finds in the text
RECURSIVE MatchingPatterns(_, _, _)
MatchingPatterns(patterns, j, text_lower) ==
    IF j > Len(patterns) THEN 0
    ELSE (IF Search(patterns[j], text_lower) THEN 1 ELSE 0)
             + MatchingPatterns(patterns, j + 1, text_lower)

\* scores[quality] after one more message, unless the loop has raised
ScoreAfter(before, text_, n) ==
    IF before.kind = "raised" THEN before
    ELSE IF text_.kind = "raised" THEN text_
    ELSE Num(before.val + MatchingPatterns(collaboration_patterns[n].patterns, 1, text_.val))

\* lines 108-114: scores[quality] after the first k messages, or the
\* exception raised on one of them
RECURSIVE CollaborationScore(_, _, _)
CollaborationScore(messages, n, k) ==
    IF k = 0 THEN Num(0)
    ELSE ScoreAfter(CollaborationScore(messages, n, k - 1), CollabText(messages[k]), n)

\* the dictionary "scores" when the loop has ended, or the exception
CollaborationScores(messages) ==
    IF CollaborationScore(messages, 1, Len(messages)).kind = "raised"
    THEN CollaborationScore(messages, 1, Len(messages))
    ELSE List([n \in 1..Len(collaboration_patterns) |->
                 CollaborationScore(messages, n, Len(messages)).val])

CollabIndex(name) ==
    CHOOSE n \in 1..Len(collaboration_patterns) : collaboration_patterns[n].name = name

\* the decision without its first branch
CollaborationQualityNoOverride(high, medium, low, confrontational) ==
    IF high > medium + low THEN "high"
    ELSE IF low > high THEN "low"
    ELSE IF confrontational > 2 THEN "confrontational"
    ELSE "medium"

\* lines 117-124: the if / elif / elif / else of the overall quality
CollaborationQuality(high, medium, low, confrontational) ==
    IF confrontational > 2 THEN "confrontational"
    ELSE IF high > medium + low THEN "high"
    ELSE IF low > high THEN "low"
    ELSE "medium"

\* the returned label, with the local dictionary "scores" kept beside it
CollaborationResult(scores) ==
    IF scores.kind = "raised"
    THEN [status |-> "raised", scores |-> <<>>, error |-> scores.val]
    ELSE [status |-> CollaborationQuality(scores.val[CollabIndex("high")],
                                          scores.val[CollabIndex("medium")],
                                          scores.val[CollabIndex("low")],
                                          scores.val[CollabIndex("confrontational")]),
          scores |-> scores.val]
analyze_collaboration_quality(messages) == CollaborationResult(CollaborationScores(messages))

MaxCollabMsgs == 4
CollabTexts ==
    {"Obviously useless", "terrible", "Let's go, love it, yes and",
     "perfect together", "okay", "No"}
CollabMessages ==
    { QMessage(Str(t), Absent, Absent) : t \in CollabTexts }
        \cup { QMessage(Absent, Str("user"), Absent), QMessage(Null, Str("user"), Absent) }
CollabInputs == ListsUpTo(CollabMessages, MaxCollabMsgs)

InitCollab ==
    /\ qmsgs \in CollabInputs
    /\ qres = NoResult
    /\ ParseIdle /\ ClassifyIdle /\ RedactIdle /\ TemporalIdle /\ AdvancedIdle

AnalyzeCollaborationQuality ==
    /\ qres = NoResult
    /\ qres' = analyze_collaboration_quality(qmsgs)
    /\ UNCHANGED <<qmsgs, parseVars, classifyVars, redactVars, temporalVars, advancedVars>>

NextCollab == AnalyzeCollaborationQuality
SpecCollab == InitCollab /\ [][NextCollab]_vars

\* C11: the label is 'confrontational' whenever the confrontational score
\* exceeds 2, whatever the other scores are; otherwise it is 'high' iff
\* high > medium + low; otherwise 'low' iff low > high; otherwise 'medium'.
C11_CollaborationDecision ==
    qres # NoResult /\ qres.status # "raised" =>
        LET high == qres.scores[CollabIndex("high")]
            medium == qres.scores[CollabIndex("medium")]
            low == qres.scores[CollabIndex("low")]
            confrontational == qres.scores[CollabIndex("confrontational")]
        IN  /\ qres.scores = CollaborationScores(qmsgs).val
            /\ confrontational > 2 => qres.status = "confrontational"
            /\ confrontational <= 2 =>
                 /\ (qres.status = "high") <=> (high > medium + low)
                 /\ high <= medium + low =>
                      /\ (qres.status = "low") <=> (low > high)
                      /\ low <= high => qres.status = "medium"

\* confrontational = 3 and high = 5 give 'confrontational'
C11_Witness ==
    /\ qres # NoResult
    /\ qres.status = "confrontational"
    /\ qres.scores[CollabIndex("confrontational")] = 3
    /\ qres.scores[CollabIndex("high")] = 5

\* the messages in which at least one pattern of category n is found
MessagesMatching(messages, n) ==
    { k \in 1..Len(messages) :
        /\ CollabText(messages[k]).kind = "str"
        /\ MatchingPatterns(collaboration_patterns[n].patterns, 1, CollabText(messages[k]).val) > 0 }

\* C19 as the spec states it: a score is the number of messages that match
\* any pattern of the category, so that no score exceeds the number of
\* messages and 'confrontational' takes three confrontational messages
C19_ScoresCountMessages ==
    qres # NoResult /\ qres.status # "raised" =>
        /\ \A n \in 1..Len(collaboration_patterns) :
               /\ qres.scores[n] = Cardinality(MessagesMatching(qmsgs, n))
               /\ qres.scores[n] <= Len(qmsgs)
        /\ qres.status = "confrontational" =>
               Cardinality(MessagesMatching(qmsgs, CollabIndex("confrontational"))) >= 3

(***************************************************************************)
(* analyze_conversation_flow                                               *)
(***************************************************************************)
DigitVal(c) == CHOOSE d \in 0..9 : SubSeq(DigitChars, d + 1, d + 1) = c
\* int() of the digits of t at positions a..b
RECURSIVE NumAt(_, _, _)
NumAt(t, a, b) ==
    IF b < a THEN 0 ELSE NumAt(t, a, b - 1) * 10 + DigitVal(Ch(t, b))

IsLeap(y) == (y % 4 = 0 /\ y % 100 # 0) \/ y % 400 = 0
DaysInMonth(y, mo) ==
    IF mo = 2 THEN (IF IsLeap(y) THEN 29 ELSE 28)
    ELSE IF mo \in {4, 6, 9, 11} THEN 30 ELSE 31
\* the days before January 1st of year y, and before the first of month mo
DaysBeforeYear(y) ==
    ((y - 1) * 365) + ((y - 1) \div 4) - ((y - 1) \div 100) + ((y - 1) \div 400)
RECURSIVE DaysBeforeMonth(_, _)
DaysBeforeMonth(y, mo) ==
    IF mo <= 1 THEN 0 ELSE DaysBeforeMonth(y, mo - 1) + DaysInMonth(y, mo - 1)
\* date.toordinal(): 0001-01-01 is day 1
YmdToOrd(y, mo, d) == DaysBeforeYear(y) + DaysBeforeMonth(y, mo) + d

\* datetime.fromisoformat, as the C implementation of Python 3.11 reads a
\* text.  Positions are 1-based; the character after the end of a text is ""
\* (the terminating NUL of the C string).

\* the length of the date part of t (len(t) > 6), 0 for a malformed week date
FindSeparator(t) ==
    IF Len(t) = 7 THEN 7
    ELSE IF Ch(t, 5) = "-"
         THEN IF Ch(t, 6) = "W"
              THEN IF Len(t) < 8 THEN 0
                   ELSE IF Len(t) > 8 /\ Ch(t, 9) = "-"
                        THEN IF Len(t) = 9 THEN 0
                             ELSE IF Len(t) > 10 /\ Ch(t, 11) \in DigitSet THEN 8
                             ELSE 10
                   ELSE 8
              ELSE 10
    ELSE IF Ch(t, 5) = "W"
         THEN IF RunEnd(t, 8, DigitSet) < 9 THEN RunEnd(t, 8, DigitSet)
              ELSE IF RunEnd(t, 8, DigitSet) % 2 = 0 THEN 7
              ELSE 8
    ELSE 8

\* the ordinal of the date year-month-day, 0 when there is no such date
DateOrdinal(year, month, day) ==
    IF year \in 1..9999 /\ month \in 1..12 /\ day \in 1..DaysInMonth(year, month)
    THEN YmdToOrd(year, month, day)
    ELSE 0

\* an ISO year of 53 weeks
LongYear(year) ==
    \/ YmdToOrd(year, 1, 1) % 7 = 4
    \/ YmdToOrd(year, 1, 1) % 7 = 3 /\ IsLeap(year)
\* the Monday of ISO week 1 of the year that starts on ordinal first
WeekOneMonday(first) ==
    first - ((first + 6) % 7) + (IF (first + 6) % 7 > 3 THEN 7 ELSE 0)
\* the ordinal of day `day' of ISO week `week' of `year', 0 when out of range
IsoWeekToGregorian(year, week, day) ==
    IF year \notin 1..9999 THEN 0
    ELSE IF ~(week \in 1..52 \/ (week = 53 /\ LongYear(year))) THEN 0
    ELSE IF day \notin 1..7 THEN 0
    ELSE IF WeekOneMonday(YmdToOrd(year, 1, 1)) + ((week - 1) * 7) + (day - 1)
                \in 1..YmdToOrd(9999, 12, 31)
         THEN WeekOneMonday(YmdToOrd(year, 1, 1)) + ((week - 1) * 7) + (day - 1)
    ELSE 0

\* 'Www', 'Www-D' or 'WwwD' with the week digits at pos
ParseWeekDate(d, year, has_sep, pos) ==
    IF ~DigitsAt(d, pos, 2) THEN 0
    ELSE IF Len(d) < pos + 2 THEN IsoWeekToGregorian(year, NumAt(d, pos, pos + 1), 1)
    ELSE IF (Ch(d, pos + 2) = "-") # has_sep THEN 0
    ELSE LET dp == IF has_sep THEN pos + 3 ELSE pos + 2
         IN  IF ~DigitsAt(d, dp, 1) \/ dp # Len(d) THEN 0
             ELSE IsoWeekToGregorian(year, NumAt(d, pos, pos + 1), NumAt(d, dp, dp))
\* 'MM-DD' or 'MMDD' with the month digits at pos
ParseMonthDay(d, year, has_sep, pos) ==
    IF ~DigitsAt(d, pos, 2) THEN 0
    ELSE IF (Ch(d, pos + 2) = "-") # has_sep THEN 0
    ELSE LET dp == IF has_sep THEN pos + 3 ELSE pos + 2
         IN  IF ~DigitsAt(d, dp, 2) \/ dp + 1 # Len(d) THEN 0
             ELSE DateOrdinal(year, NumAt(d, pos, pos + 1), NumAt(d, dp, dp + 1))
\* the ordinal of the date part d, 0 when it is no date
ParseDate(d) ==
    IF ~DigitsAt(d, 1, 4) THEN 0
    ELSE IF Ch(d, IF Ch(d, 5) = "-" THEN 6 ELSE 5) = "W"
         THEN ParseWeekDate(d, NumAt(d, 1, 4), Ch(d, 5) = "-", IF Ch(d, 5) = "-" THEN 7 ELSE 6)
    ELSE ParseMonthDay(d, NumAt(d, 1, 4), Ch(d, 5) = "-", IF Ch(d, 5) = "-" THEN 6 ELSE 5)

\* HH[:MM[:SS]] with a fraction: rv is 0 when the part ends the text, 1 when
\* something follows it, negative when it is malformed
HmsFail(code) == [rv |-> code, vals |-> <<0, 0, 0, 0>>]
FractionCorrection == <<100000, 10000, 1000, 100, 10, 1>>
\* the fraction from p up to e: at most 6 digits are read, more are skipped
Fraction(t, p, e, vals) ==
    LET to_parse == IF e - p >= 6 THEN 6 ELSE e - p
    IN  IF to_parse < 1 \/ ~DigitsAt(t, p, to_parse) THEN HmsFail(-3)
        ELSE [rv |-> IF Ch(t, RunEnd(t, p + to_parse, DigitSet) + 1) # "" THEN 1 ELSE 0,
              vals |-> [vals EXCEPT ![4] = NumAt(t, p, p + to_parse - 1)
                                              * FractionCorrection[to_parse]]]
\* component i (0 the hour) at p, the part ending before e
RECURSIVE HmsLoop(_, _, _, _, _, _)
HmsLoop(t, p, e, i, has_sep, vals) ==
    IF i > 2 THEN Fraction(t, p, e, vals)
    ELSE IF ~DigitsAt(t, p, 2) THEN HmsFail(-3)
    ELSE LET c == Ch(t, p + 2)
             sep == IF i = 0 THEN c = ":" ELSE has_sep
             now == [vals EXCEPT ![i + 1] = NumAt(t, p, p + 1)]
         IN  IF p + 3 >= e THEN [rv |-> IF c # "" THEN 1 ELSE 0, vals |-> now]
             ELSE IF sep /\ c = ":" THEN HmsLoop(t, p + 3, e, i + 1, sep, now)
             ELSE IF c \in {".", ","} THEN Fraction(t, p + 3, e, now)
             ELSE IF ~sep THEN HmsLoop(t, p + 2, e, i + 1, sep, now)
             ELSE HmsFail(-4)
ParseHhMmSsFf(t, p, e) == HmsLoop(t, p, e, 0, TRUE, <<0, 0, 0, 0>>)

\* the position of the first 'Z', '+' or '-' of t, Len(t) + 1 without one
TzPos(t) ==
    IF \E k \in 1..Len(t) : Ch(t, k) \in {"Z", "+", "-"}
    THEN Min({ k \in 1..Len(t) : Ch(t, k) \in {"Z", "+", "-"} })
    ELSE Len(t) + 1

NoTime == [ok |-> FALSE, vals |-> <<0, 0, 0, 0>>, aware |-> FALSE, offsec |-> 0, offus |-> 0]
\* the time part when its clock tm and its offset off have been read
TimeWith(t, tz, tm, off) ==
    IF tm.rv < 0 THEN NoTime
    ELSE IF tz > Len(t)
         THEN IF tm.rv = 1 THEN NoTime
              ELSE [ok |-> TRUE, vals |-> tm.vals, aware |-> FALSE, offsec |-> 0, offus |-> 0]
    ELSE IF Ch(t, tz) = "Z"
         THEN IF tz # Len(t) THEN NoTime
              ELSE [ok |-> TRUE, vals |-> tm.vals, aware |-> TRUE, offsec |-> 0, offus |-> 0]
    ELSE IF off.rv # 0 THEN NoTime
    ELSE [ok |-> TRUE, vals |-> tm.vals, aware |-> TRUE,
          offsec |-> (IF Ch(t, tz) = "-" THEN -1 ELSE 1)
                        * ((off.vals[1] * 3600) + (off.vals[2] * 60) + off.vals[3]),
          offus |-> (IF Ch(t, tz) = "-" THEN -1 ELSE 1) * off.vals[4]]
\* the time part t: the clock up to the offset sign, then the offset
ParseTime(t) ==
    TimeWith(t, TzPos(t), ParseHhMmSsFf(t, 1, TzPos(t)),
             IF TzPos(t) < Len(t) THEN ParseHhMmSsFf(t, TzPos(t) + 1, Len(t) + 1)
             ELSE HmsFail(-3))

\* a parsed time: the ordinal of its day, the second of the day, the
\* microsecond, and for an aware time the UTC offset in seconds and
\* microseconds of one sign
InvalidTime ==
    [ok |-> FALSE, aware |-> FALSE, day |-> 0, sec |-> 0, us |-> 0, offsec |-> 0, offus |-> 0]
\* datetime(...): the fields are range-checked; an offset of 0 seconds is UTC
\* whatever its fraction; an offset reaches no 24 hours
DateTime(ordinal, tm) ==
    IF ordinal = 0 \/ ~tm.ok THEN InvalidTime
    ELSE IF tm.vals[1] > 23 \/ tm.vals[2] > 59 \/ tm.vals[3] > 59 THEN InvalidTime
    ELSE IF tm.offsec <= -86400 \/ tm.offsec >= 86400 THEN InvalidTime
    ELSE [ok |-> TRUE, aware |-> tm.aware, day |-> ordinal,
          sec |-> (tm.vals[1] * 3600) + (tm.vals[2] * 60) + tm.vals[3],
          us |-> tm.vals[4],
          offsec |-> tm.offsec,
          offus |-> IF tm.offsec = 0 THEN 0 ELSE tm.offus]
Midnight == [ok |-> TRUE, vals |-> <<0, 0, 0, 0>>, aware |-> FALSE, offsec |-> 0, offus |-> 0]
\* the text split at the separator sep: the date, one character, the time
SplitAt(t, sep) ==
    IF sep = 0 \/ Len(t) < sep THEN InvalidTime
    ELSE IF Len(t) = sep THEN DateTime(ParseDate(t), Midnight)
    ELSE IF Len(t) = sep + 1 THEN InvalidTime
    ELSE DateTime(ParseDate(SubSeq(t, 1, sep)), ParseTime(SubSeq(t, sep + 2, Len(t))))
\* datetime.fromisoformat(t); InvalidTime stands for the ValueError
FromIsoFormat(t) == IF Len(t) < 7 THEN InvalidTime ELSE SplitAt(t, FindSeparator(t))

\* datetime.fromisoformat(msg['timestamp'].replace('Z', '+00:00')); None and a
\* list have no such replace (AttributeError), an invalid time as well
TimeOf(msg) ==
    IF msg.timestamp.kind = "str"
    THEN FromIsoFormat(Replace(msg.timestamp.val, "Z", "+00:00"))
    ELSE InvalidTime

\* a timedelta: days, 0 <= seconds < 86400, 0 <= microseconds < 1000000
TimeDelta(d, s_, u) ==
    [days |-> d + ((s_ + (u \div 1000000)) \div 86400),
     seconds |-> (s_ + (u \div 1000000)) % 86400,
     microseconds |-> u % 1000000]
\* a - b of two times, each brought to UTC by its offset (none: 0)
TimeDiff(a, b) ==
    TimeDelta(a.day - b.day,
              (a.sec - a.offsec) - (b.sec - b.offsec),
              (a.us - a.offus) - (b.us - b.offus))

\* lines 222-234: the try block yields a gap unless a key is missing, a parse
\* raises, or an aware time is subtracted from a naive one (all swallowed)
Subtractable(a, b) == a.ok /\ b.ok /\ a.aware = b.aware
HasGap(current, previous) ==
    /\ current.timestamp.kind # "absent" /\ previous.timestamp.kind # "absent"
    /\ Subtractable(TimeOf(current), TimeOf(previous))
\* line 227: curr_time - prev_time, the timedelta whose total_seconds() is gap
Gap(current, previous) == TimeDiff(TimeOf(current), TimeOf(previous))

QuickGap == 60
LongGap == 3600
\* gap < 60 and gap > 3600 of the total seconds of a timedelta
IsQuick(gap) == gap.days < 0 \/ (gap.days = 0 /\ gap.seconds < QuickGap)
IsLong(gap) ==
    \/ gap.days > 0
    \/ gap.days = 0 /\ (gap.seconds > LongGap \/ (gap.seconds = LongGap /\ gap.microseconds > 0))

\* msg.get('role'): None when the key is absent
FlowRole(msg) == Get(msg.role, Null)

\* lines 229-232: what a pair adds to <<quick_responses, long_gaps>>
GapCounts(has_gap, gap) ==
    <<IF has_gap /\ IsQuick(gap) THEN 1 ELSE 0,
      IF has_gap /\ ~IsQuick(gap) /\ IsLong(gap) THEN 1 ELSE 0>>

\* the pair is counted as an interruption even when the repeated role is
\* not 'user'
PairCountsAnyRole(current, previous) ==
    <<IF FlowRole(current) = FlowRole(previous) THEN 1 ELSE 0, 0>>
        \o GapCounts(HasGap(current, previous), Gap(current, previous))

\* lines 211-234 for one pair: what it adds to
\* <<interruptions, monologues, quick_responses, long_gaps>>
PairCounts(current, previous) ==
    <<IF FlowRole(current) = FlowRole(previous) /\ FlowRole(current) = Str("user") THEN 1 ELSE 0,
      IF FlowRole(current) = FlowRole(previous) /\ FlowRole(current) # Str("user") THEN 1 ELSE 0>>
        \o GapCounts(HasGap(current, previous), Gap(current, previous))

\* the loop "for i in range(1, len(messages))", i being 0-based
FlowAfter(before, pair) == [c \in 1..4 |-> before[c] + pair[c]]
RECURSIVE FlowLoop(_, _)
FlowLoop(messages, i) ==
    IF i < 1 THEN <<0, 0, 0, 0>>
    ELSE FlowAfter(FlowLoop(messages, i - 1), PairCounts(messages[i + 1], messages[i]))

FlowResult(flow) ==
    [status |-> "flow",
     interruptions |-> flow[1], monologues |-> flow[2],
     quick_responses |-> flow[3], long_gaps |-> flow[4]]
analyze_conversation_flow(messages) == FlowResult(FlowLoop(messages, Len(messages) - 1))

MaxFlowMsgs == 5
FlowMessages ==
    { QMessage(Absent, Str("user"), Absent),
      QMessage(Absent, Str("assistant"), Absent),
      QMessage(Absent, Absent, Str("2024-03-01T05:29:30.5+05:30")),
      QMessage(Absent, Str("user"), Str("2024-03-01T00:00:00Z")),
      QMessage(Absent, Str("assistant"), Str("2024-03-01T01:00:00.000001Z")),
      QMessage(Absent, Null, Str("2100-02-28T12:34")),
      QMessage(Absent, Str("assistant"), Null) }
FlowInputs == ListsUpTo(FlowMessages, MaxFlowMsgs)

InitFlow ==
    /\ qmsgs \in FlowInputs
    /\ qres = NoResult
    /\ ParseIdle /\ ClassifyIdle /\ RedactIdle /\ TemporalIdle /\ AdvancedIdle

AnalyzeConversationFlow ==
    /\ qres = NoResult
    /\ qres' = analyze_conversation_flow(qmsgs)
    /\ UNCHANGED <<qmsgs, parseVars, classifyVars, redactVars, temporalVars, advancedVars>>

NextFlow == AnalyzeConversationFlow
SpecFlow == InitFlow /\ [][NextFlow]_vars

\* the adjacent pairs (i - 1, i) of the messages with equal roles
EqualRolePairs(messages) ==
    { i \in 2..Len(messages) : FlowRole(messages[i]) = FlowRole(messages[i - 1]) }
RolesOf(messages) == [k \in 1..Len(messages) |-> FlowRole(messages[k])]
NoTimestamps(messages) == \A k \in 1..Len(messages) : messages[k].timestamp = Absent

\* C12: a pair of adjacent messages with equal roles adds 1 to interruptions
\* when the role is 'user' and 1 to monologues otherwise, any other pair adds
\* to neither, so interruptions + monologues is the number of equal-role
\* adjacent pairs (at most n - 1); roles user, user, assistant, assistant,
\* user without timestamps give 1, 1, 0, 0.
C12_FlowRoleCounters ==
    qres # NoResult =>
        /\ qres.interruptions =
               Cardinality({ i \in EqualRolePairs(qmsgs) : FlowRole(qmsgs[i]) = Str("user") })
        /\ qres.monologues =
               Cardinality({ i \in EqualRolePairs(qmsgs) : FlowRole(qmsgs[i]) # Str("user") })
        /\ qres.interruptions + qres.monologues = Cardinality(EqualRolePairs(qmsgs))
        /\ qres.interruptions + qres.monologues <= Max({Len(qmsgs) - 1, 0})
        /\ (/\ RolesOf(qmsgs) = <<Str("user"), Str("user"), Str("assistant"),
                                  Str("assistant"), Str("user")>>
            /\ NoTimestamps(qmsgs))
               => /\ qres.interruptions = 1 /\ qres.monologues = 1
                  /\ qres.quick_responses = 0 /\ qres.long_gaps = 0

\* the roles of the example, handled
C12_Witness ==
    /\ qres # NoResult
    /\ RolesOf(qmsgs) = <<Str("user"), Str("user"), Str("assistant"),
                          Str("assistant"), Str("user")>>
    /\ NoTimestamps(qmsgs)
    /\ qres.interruptions = 1 /\ qres.monologues = 1

(***************************************************************************)
(* TemporalEvolutionAnalyzer.identify_conversation_streaks.  A calendar    *)
(* date is its day ordinal; NaT is the date of a row without a timestamp.  *)
(***************************************************************************)
NaT == 0

\* sorted(self.df['date'].dropna().unique())
ActiveSet(frame) == { frame[k].date : k \in 1..Len(frame) } \ {NaT}
RECURSIVE SortedSeq(_)
SortedSeq(S) ==
    IF S = {} THEN <<>> ELSE <<Min(S)>> \o SortedSeq(S \ {Min(S)})

\* the messages of the last date of the streak are left out of the count
StreakOfOpenEnd(frame, current_streak) ==
    [start_date |-> current_streak[1],
     end_date |-> current_streak[2],
     length_days |-> current_streak[2] - current_streak[1] + 1,
     message_count |->
        Cardinality({ k \in 1..Len(frame) :
            /\ frame[k].date # NaT
            /\ frame[k].date >= current_streak[1]
            /\ frame[k].date < current_streak[2] })]

\* lines 176-184 and 189-197: the dictionary appended for current_streak,
\* which is kept as <<first date, last date>>
StreakOf(frame, current_streak) ==
    [start_date |-> current_streak[1],
     end_date |-> current_streak[2],
     length_days |-> current_streak[2] - current_streak[1] + 1,
     message_count |->
        Cardinality({ k \in 1..Len(frame) :
            /\ frame[k].date # NaT
            /\ frame[k].date >= current_streak[1]
            /\ frame[k].date <= current_streak[2] })]

\* lines 175 and 188: a streak that ended is kept when it is long enough
Closed(frame, streaks, current_streak, min_d) ==
    IF current_streak[2] - current_streak[1] + 1 >= min_d
    THEN Append(streaks, StreakOf(frame, current_streak))
    ELSE streaks

\* the streak still open after the loop is not looked at
FinalStreakDropped(frame, streaks, current_streak, min_d) == streaks

\* lines 187-197: "Check final streak"
FinalStreak(frame, streaks, current_streak, min_d) ==
    Closed(frame, streaks, current_streak, min_d)

\* lines 169-185: the loop over active_dates, i being 0-based
RECURSIVE StreakLoop(_, _, _, _, _, _)
StreakLoop(frame, active_dates, i, streaks, current_streak, min_d) ==
    IF i >= Len(active_dates)
    THEN FinalStreak(frame, streaks, current_streak, min_d)
    ELSE IF active_dates[i + 1] - active_dates[i] = 1
         THEN StreakLoop(frame, active_dates, i + 1, streaks,
                         <<current_streak[1], active_dates[i + 1]>>, min_d)
         ELSE StreakLoop(frame, active_dates, i + 1,
                         Closed(frame, streaks, current_streak, min_d),
                         <<active_dates[i + 1], active_dates[i + 1]>>, min_d)

\* sorted(streaks, key=length_days, reverse=True): stable, so streaks of
\* equal length stay in the order they were found
RECURSIVE SortByLength(_, _)
SortByLength(streaks, k) ==
    IF k = 0 THEN <<>>
    ELSE LET before == SortByLength(streaks, k - 1)
             ahead == { j \in 1..Len(before) : before[j].length_days >= streaks[k].length_days }
             at == IF ahead = {} THEN 0 ELSE Max(ahead)
         IN  SubSeq(before, 1, at) \o <<streaks[k]>> \o SubSeq(before, at + 1, Len(before))

identify_conversation_streaks(frame, min_d) ==
    IF Cardinality(ActiveSet(frame)) < min_d THEN <<>>
    ELSE LET active_dates == SortedSeq(ActiveSet(frame))
             streaks == StreakLoop(frame, active_dates, 1, <<>>,
                                   <<active_dates[1], active_dates[1]>>, min_d)
         IN  SortByLength(streaks, Len(streaks))

MaxDay == 8
MaxMinDays == 4
\* a frame with one row for each date of S, latest first; the fuller frames
\* also hold a second row for the earliest date and a row without timestamp
RECURSIVE RowsLatestFirst(_)
RowsLatestFirst(S) ==
    IF S = {} THEN <<>> ELSE <<[date |-> Max(S)]>> \o RowsLatestFirst(S \ {Max(S)})
StreakFrames ==
    { RowsLatestFirst(S) : S \in SUBSET (1..MaxDay) }
        \cup { <<[date |-> NaT]>> \o RowsLatestFirst(S) \o <<[date |-> Min(S)]>> :
                 S \in (SUBSET (1..MaxDay)) \ {{}} }

InitStreaks ==
    /\ tdf \in StreakFrames
    /\ min_days \in 1..MaxMinDays
    /\ tpc = "ready" /\ tres = <<>>
    /\ ParseIdle /\ ClassifyIdle /\ RedactIdle /\ QualityIdle /\ AdvancedIdle

IdentifyConversationStreaks ==
    /\ tpc = "ready"
    /\ tres' = identify_conversation_streaks(tdf, min_days)
    /\ tpc' = "done"
    /\ UNCHANGED <<tdf, min_days, parseVars, classifyVars, redactVars, qualityVars, advancedVars>>

NextStreaks == IdentifyConversationStreaks
SpecStreaks == InitStreaks /\ [][NextStreaks]_vars

\* the maximal runs of consecutive active dates of length at least min_d
MaximalRuns(A, min_d) ==
    { r \in A \X A :
        /\ r[1] <= r[2]
        /\ \A d \in r[1]..r[2] : d \in A
        /\ (r[1] - 1) \notin A /\ (r[2] + 1) \notin A
        /\ r[2] - r[1] + 1 >= min_d }
SpanOf(streak) == <<streak.start_date, streak.end_date>>

\* C13: the streaks returned are exactly the maximal runs of consecutive
\* active dates whose length is at least min_days, each once and the last
\* run included; they are pairwise disjoint and not adjacent, and ordered by
\* length descending.  Active dates D..D+2, D+4..D+7 with min_days = 3 give
\* D+4..D+7 (length 4) and then D..D+2 (length 3).
C13_StreakPartition ==
    tpc = "done" =>
        /\ { SpanOf(tres[k]) : k \in 1..Len(tres) } = MaximalRuns(ActiveSet(tdf), min_days)
        /\ Len(tres) = Cardinality(MaximalRuns(ActiveSet(tdf), min_days))
        /\ \A k \in 1..Len(tres) :
               tres[k].length_days = tres[k].end_date - tres[k].start_date + 1
        /\ \A j, k \in 1..Len(tres) :
               /\ j < k => tres[j].length_days >= tres[k].length_days
               /\ j # k => \/ tres[j].end_date + 1 < tres[k].start_date
                           \/ tres[k].end_date + 1 < tres[j].start_date
        /\ (ActiveSet(tdf) = {1, 2, 3, 5, 6, 7, 8} /\ min_days = 3)
               => <<SpanOf(tres[1]), SpanOf(tres[2])>> = << <<5, 8>>, <<1, 3>> >>

\* the example: two streaks, the later and longer one first
C13_Witness ==
    /\ tpc = "done"
    /\ ActiveSet(tdf) = {1, 2, 3, 5, 6, 7, 8} /\ min_days = 3
    /\ Len(tres) = 2 /\ tres[1].length_days = 4 /\ tres[2].length_days = 3

(***************************************************************************)
(* TemporalEvolutionAnalyzer.calculate_engagement_score.  The floating     *)
(* point values are kept as exact fractions; a division of 0 by 0 is NaN.  *)
(***************************************************************************)
RECURSIVE SumOver(_, _, _)
\* the sum of the word_count of the rows of frame whose index is in K
SumOver(frame, K, k) ==
    IF k = 0 THEN 0
    ELSE (IF k \in K THEN frame[k].word_count ELSE 0) + SumOver(frame, K, k - 1)

\* the rows of one group of self.df.groupby('date'); NaT forms no group
RowsOn(frame, d) == { k \in 1..Len(frame) : frame[k].date = d }

\* lines 137-143 for one date: 'count', 'mean' (as total / count), 'nunique'
DailyMetrics(frame, d) ==
    [date |-> d,
     message_count |-> Cardinality(RowsOn(frame, d)),
     length_total |-> SumOver(frame, RowsOn(frame, d), Len(frame)),
     conversation_count |->
        Cardinality({ frame[k].conversation_id : k \in RowsOn(frame, d) } \ {Null})]

\* the positions of the days whose avg_length is the largest
LongestDays(daily) ==
    { j \in 1..Len(daily) :
        \A k \in 1..Len(daily) :
            daily[j].length_total * daily[k].message_count
                >= daily[k].length_total * daily[j].message_count }
MaxMessageCount(daily) == Max({ daily[k].message_count : k \in 1..Len(daily) })
MaxConversationCount(daily) == Max({ daily[k].conversation_count : k \in 1..Len(daily) })

\* lines 146-150 for the day at position j, top being a day of largest
\* avg_length: (mc / max * 0.4 + al / max * 0.3 + cc / max * 0.3) * 100 as
\* num / den, NaN when a maximum is 0
EngagementScore(daily, j, top) ==
    LET mc == daily[j].message_count
        maxmc == MaxMessageCount(daily)
        alnum == daily[j].length_total * daily[top].message_count
        alden == daily[j].message_count * daily[top].length_total
        cc == daily[j].conversation_count
        maxcc == MaxConversationCount(daily)
    IN  IF maxmc = 0 \/ alden = 0 \/ maxcc = 0
        THEN [nan |-> TRUE, num |-> 0, den |-> 1]
        ELSE [nan |-> FALSE,
              num |-> 100 * ((4 * mc * alden * maxcc) + (3 * alnum * maxmc * maxcc)
                                + (3 * cc * maxmc * alden)),
              den |-> 10 * maxmc * alden * maxcc]

calculate_engagement_score(frame) ==
    LET dates == SortedSeq(ActiveSet(frame))
        daily == [j \in 1..Len(dates) |-> DailyMetrics(frame, dates[j])]
    IN  [j \in 1..Len(dates) |->
            [date |-> daily[j].date,
             message_count |-> daily[j].message_count,
             length_total |-> daily[j].length_total,
             conversation_count |-> daily[j].conversation_count,
             engagement_score |->
                EngagementScore(daily, j, CHOOSE top \in LongestDays(daily) : TRUE)]]

MaxEngagementRows == 3
EngagementRows ==
    { [date |-> d, word_count |-> w, conversation_id |-> c] :
        d \in {1, 2}, w \in {1, 3}, c \in {Null, Str("c1"), Str("c2")} }
        \cup { [date |-> NaT, word_count |-> 3, conversation_id |-> Str("c1")] }
EngagementFrames == ListsUpTo(EngagementRows, MaxEngagementRows)

InitEngagement ==
    /\ tdf \in EngagementFrames
    /\ min_days = 0
    /\ tpc = "ready" /\ tres = <<>>
    /\ ParseIdle /\ ClassifyIdle /\ RedactIdle /\ QualityIdle /\ AdvancedIdle

CalculateEngagementScore ==
    /\ tpc = "ready"
    /\ tres' = calculate_engagement_score(tdf)
    /\ tpc' = "done"
    /\ UNCHANGED <<tdf, min_days, parseVars, classifyVars, redactVars, qualityVars, advancedVars>>

NextEngagement == CalculateEngagementScore
SpecEngagement == InitEngagement /\ [][NextEngagement]_vars

\* the day at position j attains the maximum of all three metrics
MaximalDay(daily, j) ==
    /\ daily[j].message_count = MaxMessageCount(daily)
    /\ j \in LongestDays(daily)
    /\ daily[j].conversation_count = MaxConversationCount(daily)

\* C14 as the spec states it: for a frame with rows, the score of every day
\* is a number in [0, 100], and a day that attains the maximum of all three
\* metrics scores exactly 100
C14_EngagementBounds ==
    (tpc = "done" /\ tdf # <<>>) =>
        \A j \in 1..Len(tres) :
            /\ ~tres[j].engagement_score.nan
            /\ tres[j].engagement_score.num >= 0
            /\ tres[j].engagement_score.num <= 100 * tres[j].engagement_score.den
            /\ MaximalDay(tres, j) =>
                   tres[j].engagement_score.num = 100 * tres[j].engagement_score.den

(***************************************************************************)
(* TemporalEvolutionAnalyzer.detect_pattern_changes.  A timestamp is an    *)
(* instant number, NaT where it is missing; averages are exact fractions.  *)
(***************************************************************************)
\* the rows of the frame without a timestamp, in frame order
RECURSIVE Unstamped(_, _)
Unstamped(frame, k) ==
    IF k = 0 THEN <<>>
    ELSE IF frame[k].timestamp = NaT THEN Append(Unstamped(frame, k - 1), frame[k])
    ELSE Unstamped(frame, k - 1)

\* the orders in which the rows at the positions left can follow one
\* another by ascending timestamp: any row of the least timestamp first
RECURSIVE StampedOrders(_, _)
StampedOrders(frame, left) ==
    IF left = {} THEN {<<>>}
    ELSE UNION { { <<frame[k]>> \o rest : rest \in StampedOrders(frame, left \ {k}) } :
                   k \in { j \in left :
                             \A i \in left : frame[j].timestamp <= frame[i].timestamp } }

\* self.df.sort_values('timestamp'): ascending, NaT last.  The sort runs
\* with the default kind 'quicksort', which is not stable: rows of equal
\* timestamp come out in an order the build of the library decides, so
\* every such order is an outcome.  The rows without timestamp are put
\* after the sorted ones as they stand in the frame.
SortByTimestamp(frame) ==
    { s \o Unstamped(frame, Len(frame)) :
        s \in StampedOrders(frame, { k \in 1..Len(frame) : frame[k].timestamp # NaT }) }

\* Series.str.contains(sub)
Contains(s, sub) == \E i \in 1..Len(s) : OccursAt(s, i, sub)

\* lines 109-111: 0, then 1 for 'Positive', then -1 for 'Negative'
RollingSentimentScore(label) ==
    IF Contains(label, "Negative") THEN -1
    ELSE IF Contains(label, "Positive") THEN 1
    ELSE 0

RollingWindow == 10
RECURSIVE ScoreSum(_, _, _)
ScoreSum(sorted, a, b) ==
    IF b < a THEN 0
    ELSE ScoreSum(sorted, a, b - 1) + RollingSentimentScore(sorted[b].sentiment)

\* line 114: rolling(window=10, min_periods=1).mean() at row i, as num / den
SentimentMA(sorted, i) ==
    [num |-> ScoreSum(sorted, Max({1, i - RollingWindow + 1}), i),
     den |-> i - Max({1, i - RollingWindow + 1}) + 1]

Abs(x) == IF x < 0 THEN 0 - x ELSE x
NoShift == [nan |-> TRUE, num |-> 0, den |-> 1]

\* the first row is compared with an average of 0
SentimentShiftFromZero(sorted, i) ==
    IF i = 1 THEN [nan |-> FALSE, num |-> Abs(SentimentMA(sorted, 1).num), den |-> 1]
    ELSE [nan |-> FALSE,
          num |-> Abs((SentimentMA(sorted, i).num * SentimentMA(sorted, i - 1).den)
                        - (SentimentMA(sorted, i - 1).num * SentimentMA(sorted, i).den)),
          den |-> SentimentMA(sorted, i).den * SentimentMA(sorted, i - 1).den]

\* line 117: diff().abs() at row i; the first row has no predecessor (NaN)
SentimentShift(sorted, i) ==
    IF i = 1 THEN NoShift
    ELSE [nan |-> FALSE,
          num |-> Abs((SentimentMA(sorted, i).num * SentimentMA(sorted, i - 1).den)
                        - (SentimentMA(sorted, i - 1).num * SentimentMA(sorted, i).den)),
          den |-> SentimentMA(sorted, i).den * SentimentMA(sorted, i - 1).den]

\* a shift of exactly 0.5 counts as well
SignificantFromHalf(shift) == ~shift.nan /\ 2 * shift.num >= shift.den

\* line 119: sentiment_shift > 0.5 (false for NaN)
Significant(shift) == ~shift.nan /\ 2 * shift.num > shift.den

\* the direction taken from the sign of the change of the average
ChangeOfDeltaSign(sorted, i) ==
    [timestamp |-> sorted[i].timestamp,
     type |-> "sentiment_shift",
     magnitude |-> [num |-> SentimentShift(sorted, i).num, den |-> SentimentShift(sorted, i).den],
     direction |-> IF (SentimentMA(sorted, i).num * SentimentMA(sorted, i - 1).den)
                        > (SentimentMA(sorted, i - 1).num * SentimentMA(sorted, i).den)
                   THEN "positive" ELSE "negative"]

\* lines 121-127: the dictionary appended for row i
ChangeOf(sorted, i) ==
    [timestamp |-> sorted[i].timestamp,
     type |-> "sentiment_shift",
     magnitude |-> [num |-> SentimentShift(sorted, i).num, den |-> SentimentShift(sorted, i).den],
     direction |-> IF SentimentMA(sorted, i).num > 0 THEN "positive" ELSE "negative"]

RECURSIVE ChangesUpTo(_, _)
ChangesUpTo(sorted, i) ==
    IF i = 0 THEN <<>>
    ELSE IF Significant(SentimentShift(sorted, i))
         THEN Append(ChangesUpTo(sorted, i - 1), ChangeOf(sorted, i))
         ELSE ChangesUpTo(sorted, i - 1)

DetectChanges(sorted) == ChangesUpTo(sorted, Len(sorted))
\* the lists the method can return, one for each outcome of the sort
detect_pattern_changes(frame) == { DetectChanges(sorted) : sorted \in SortByTimestamp(frame) }

MaxShiftRows == 3
LongShiftRows == 12
ShiftLabels == {"Very Positive", "Negative", "Neutral"}
\* frames of at most MaxShiftRows rows with timestamps in any order, equal
\* and missing ones among them, and longer frames that fill the window:
\* k positive rows followed by negative ones
ShortShiftFrames ==
    ListsUpTo({ [timestamp |-> t, sentiment |-> l] :
                  t \in {NaT} \cup (1..MaxShiftRows), l \in ShiftLabels },
              MaxShiftRows)
LongShiftFrames ==
    { [i \in 1..LongShiftRows |->
         [timestamp |-> i, sentiment |-> IF i <= k THEN "Positive" ELSE "Very Negative"]] :
      k \in 0..LongShiftRows }
\* every sequence of labels over MaxShiftRows + 1 .. MidShiftRows rows in
\* timestamp order
MidShiftRows == 6
MidShiftFrames ==
    UNION { { [i \in 1..n |-> [timestamp |-> i, sentiment |-> l[i]]] :
                l \in [1..n -> ShiftLabels] } : n \in (MaxShiftRows + 1)..MidShiftRows }

InitShifts ==
    /\ tdf \in ShortShiftFrames \cup MidShiftFrames \cup LongShiftFrames
    /\ min_days = 0
    /\ tpc = "ready" /\ tres = <<>>
    /\ ParseIdle /\ ClassifyIdle /\ RedactIdle /\ QualityIdle /\ AdvancedIdle

DetectPatternChanges ==
    /\ tpc = "ready"
    /\ tres' \in detect_pattern_changes(tdf)
    /\ tpc' = "done"
    /\ UNCHANGED <<tdf, min_days, parseVars, classifyVars, redactVars, qualityVars, advancedVars>>

NextShifts == DetectPatternChanges
SpecShifts == InitShifts /\ [][NextShifts]_vars

\* s holds the rows of the frame by ascending timestamp, the rows without
\* timestamp last
InTimeOrder(s, frame) ==
    /\ Len(s) = Len(frame)
    /\ \A k \in 1..Len(frame) : Occurrences(s, frame[k]) = Occurrences(frame, frame[k])
    /\ \A i \in 2..Len(s) :
           /\ s[i - 1].timestamp = NaT => s[i].timestamp = NaT
           /\ s[i].timestamp # NaT => s[i - 1].timestamp <= s[i].timestamp
\* the time orders of the frame
TimeOrders(frame) == { s \in SortByTimestamp(frame) : InTimeOrder(s, frame) }
\* +1 / -1 / 0 by label
LabelScore(label) ==
    IF label \in {"Positive", "Very Positive"} THEN 1
    ELSE IF label \in {"Negative", "Very Negative"} THEN -1 ELSE 0
\* the sum of the scores of the rows a..b
RECURSIVE Trailing(_, _, _)
Trailing(s, a, b) == IF b < a THEN 0 ELSE LabelScore(s[b].sentiment) + Trailing(s, a, b - 1)
\* |MA(i) - MA(i - 1)| as num / den, MA being the mean of the last 10 scores
Delta(s, i) ==
    LET a == Max({1, i - 9})
        b == Max({1, i - 10})
    IN  [num |-> Abs((Trailing(s, a, i) * (i - b)) - (Trailing(s, b, i - 1) * (i - a + 1))),
         den |-> (i - a + 1) * (i - b)]
Flagged(s) == { i \in 2..Len(s) : 2 * Delta(s, i).num > Delta(s, i).den }

\* the events reported are those of the flagged messages of s, in order,
\* each with the difference of the averages as magnitude
ReportsFlagged(s, flagged) ==
    /\ Len(tres) = Len(flagged)
    /\ \A e \in 1..Len(tres) :
           /\ tres[e].timestamp = s[flagged[e]].timestamp
           /\ tres[e].magnitude.num * Delta(s, flagged[e]).den
                  = Delta(s, flagged[e]).num * tres[e].magnitude.den
    /\ 1 \notin Flagged(s)

\* C15: with the messages in timestamp order and scored +1 / -1 / 0 by
\* label, a change event is reported for exactly the messages whose moving
\* average over the last 10 samples (at least 1) differs from that of the
\* previous message by more than 0.5 in absolute value, in order, with that
\* difference as magnitude; the first message is never reported.
C15_PatternChanges ==
    tpc = "done" =>
        /\ \A s \in SortByTimestamp(tdf) : InTimeOrder(s, tdf)
        /\ \E s \in TimeOrders(tdf) : ReportsFlagged(s, SortedSeq(Flagged(s)))

\* a positive, a positive and a negative message: the averages are 1, 1 and
\* 1/3, and the third message is the one event, of magnitude 2/3
C15_Witness ==
    /\ tpc = "done"
    /\ Len(tdf) = 3 /\ Len(tres) = 1
    /\ tres[1].timestamp = 3
    /\ 3 * tres[1].magnitude.num = 2 * tres[1].magnitude.den

(***************************************************************************)
(* The order of the rules within one redact_pii call                       *)
(***************************************************************************)
MaxOrderPhrases == 2
OrderPhrases == {"5 Aa Ba st", "Aw Az", "a@b.com", "Dr. Aa Ba", "10.0.0.1", "hello"}
OrderTexts == Phrases(OrderPhrases, MaxOrderPhrases)

InitRedactOrder ==
    /\ enable_privacy \in BOOLEAN
    /\ rtext \in OrderTexts
    /\ rpc = "chosen" /\ redacted = "" /\ reredacted = ""
    /\ tokenlog = {} /\ calls = 0 /\ rlog = <<>>
    /\ ParseIdle /\ ClassifyIdle /\ QualityIdle /\ TemporalIdle /\ AdvancedIdle

\* redact_pii called on the text chosen at the start
RedactChosen ==
    /\ rpc = "chosen"
    /\ Returned(redact_pii(enable_privacy, rtext), redacted')
    /\ rpc' = "redacted"
    /\ calls' = calls + 1
    /\ UNCHANGED <<enable_privacy, rtext, reredacted, parseVars, classifyVars, qualityVars, temporalVars, advancedVars>>

NextRedactOrder == RedactChosen
SpecRedactOrder == InitRedactOrder /\ [][NextRedactOrder]_vars

\* the rules in the order the spec gives them: PII rules, then entity rules
RuleOrder == privacy_patterns \o sensitive_entities
RuleRank(rule) == CHOOSE n \in 1..Len(RuleOrder) : RuleOrder[n] = rule

\* the text after the first k replacements of the log
RECURSIVE ReplayLog(_, _, _)
ReplayLog(t, log, k) ==
    IF k = 0 THEN t
    ELSE Replace(ReplayLog(t, log, k - 1), log[k].original, log[k].token)

\* the positions of the log entries made by rules before rule n, and by rule n
EntriesBefore(log, n) == { k \in 1..Len(log) : RuleRank(log[k].type) < n }
EntriesOf(log, n) == { k \in 1..Len(log) : RuleRank(log[k].type) = n }
OriginalsOf(log, n) ==
    [j \in 1..Cardinality(EntriesOf(log, n)) |->
        log[Cardinality(EntriesBefore(log, n)) + j].original]

\* C17: within one call the replacements are made rule by rule in the order
\* email, phone, ssn, credit_card, address, ip_address, api_key, person_name,
\* full_name, so every PII rule is through before the first entity rule
\* runs; and the matches of each rule are those found in the text as the
\* earlier rules left it, never those of the original input.
C17_RuleOrdering ==
    (enable_privacy /\ rpc = "redacted") =>
        /\ \A j, k \in 1..Len(rlog) :
               j < k => RuleRank(rlog[j].type) <= RuleRank(rlog[k].type)
        /\ \A n \in 1..Len(RuleOrder) :
               OriginalsOf(rlog, n) =
                   FindIter(RuleOrder[n],
                            ReplayLog(rtext, rlog, Cardinality(EntriesBefore(rlog, n))))
        /\ redacted = ReplayLog(rtext, rlog, Len(rlog))

\* an address and a name follow each other: the address rule has taken the
\* first name with it, so that full_name finds one name where the original
\* text holds two
C17_Witness ==
    /\ enable_privacy /\ rpc = "redacted"
    /\ rtext = "5 Aa Ba st Aw Az"
    /\ Len(rlog) = 2
    /\ rlog[1].type = "address" /\ rlog[2].type = "full_name"
    /\ rlog[2].original = "Aw Az"
    /\ Len(FindIter("full_name", rtext)) = 2

(***************************************************************************)
(* ConversationQualityAnalyzer.calculate_conversation_metrics              *)
(***************************************************************************)
ClarificationPattern == WB(<<"clarify", "explain", "what do you mean", "confused">>)
ToolUsePattern == WB(<<"searching", "fetching", "analyzing", "calculating">>)

\* the code-fence marker: three backquotes
CodeFence == BackQuote \o BackQuote \o BackQuote
\* line 188: content.count of the marker
CodeFenceCount(content) == Count(content, CodeFence)

\* msg.get('content', '') and msg.get('role', '')
MetricContent(msg) == Get(msg.content, Str(""))
MetricRole(msg) == Get(msg.role, Str(""))

NoMetrics ==
    [user_questions |-> 0, clarification_requests |-> 0,
     assistant_code_blocks |-> 0, assistant_tool_uses |-> 0,
     user_count |-> 0, user_length |-> 0, assistant_count |-> 0, assistant_length |-> 0]

\* lines 171-192 for one message: what it adds to the counters and to the
\* number and the summed length of the user and of the assistant messages.
\* For the roles 'user' and 'assistant' a content that is no text raises
\* TypeError: None has no len(), re.search takes no list
MessageMetrics(msg) ==
    IF MetricRole(msg) \in {Str("user"), Str("assistant")} /\ MetricContent(msg).kind # "str"
    THEN Raised("TypeError")
    ELSE IF MetricRole(msg) = Str("user")
    THEN [NoMetrics EXCEPT
            !.user_count = 1,
            !.user_length = Len(MetricContent(msg).val),
            !.user_questions = CountChar(MetricContent(msg).val, "?"),
            !.clarification_requests =
                IF Search(ClarificationPattern, Lower(MetricContent(msg).val)) THEN 1 ELSE 0]
    ELSE IF MetricRole(msg) = Str("assistant")
    THEN [NoMetrics EXCEPT
            !.assistant_count = 1,
            !.assistant_length = Len(MetricContent(msg).val),
            !.assistant_code_blocks = CodeFenceCount(MetricContent(msg).val),
            !.assistant_tool_uses =
                IF Search(ToolUsePattern, Lower(MetricContent(msg).val)) THEN 1 ELSE 0]
    ELSE NoMetrics

\* the counters after one more message, unless the loop has raised
MetricsAfter(before, one) ==
    IF "kind" \in DOMAIN before THEN before
    ELSE IF "kind" \in DOMAIN one THEN one
    ELSE [c \in DOMAIN before |-> before[c] + one[c]]

RECURSIVE MetricsLoop(_, _)
MetricsLoop(messages, k) ==
    IF k = 0 THEN NoMetrics
    ELSE MetricsAfter(MetricsLoop(messages, k - 1), MessageMetrics(messages[k]))

\* lines 194-195: sum(lengths) / len(lengths) as num / den, 0 for no length
AverageLength(total, n) == IF n = 0 THEN [num |-> 0, den |-> 1] ELSE [num |-> total, den |-> n]

\* lines 158-166 and 194-197: the dictionary returned, with the turn count
\* of line 159 and the two averages
MetricsResult(messages, counters) ==
    IF "kind" \in DOMAIN counters THEN counters
    ELSE [turn_count |->
              Cardinality({ k \in 1..Len(messages) : Get(messages[k].role, Null) = Str("user") }),
          avg_user_length |-> AverageLength(counters.user_length, counters.user_count),
          avg_assistant_length |->
              AverageLength(counters.assistant_length, counters.assistant_count),
          user_questions |-> counters.user_questions,
          assistant_code_blocks |-> counters.assistant_code_blocks,
          assistant_tool_uses |-> counters.assistant_tool_uses,
          clarification_requests |-> counters.clarification_requests]

\* the metrics, or the exception of the loop
calculate_conversation_metrics(messages) ==
    MetricsResult(messages, MetricsLoop(messages, Len(messages)))

(***************************************************************************)
(* AdvancedConversationAnalyzer.parse_conversations_advanced               *)
(***************************************************************************)
\* the privacy step measuring the redacted preview again
RedactRowRemeasured(row, r) ==
    [c \in DOMAIN row \cup {"pii_redactions"} |->
        IF c = "content_preview" THEN r.text
        ELSE IF c = "pii_redactions" THEN r.redactions
        ELSE IF c = "content_length" THEN Len(r.text)
        ELSE IF c = "word_count" THEN WordCount(r.text)
        ELSE row[c]]

\* lines 62-64 for one row, r being redact_pii(row['content_preview'])
RedactRow(row, r) ==
    [c \in DOMAIN row \cup {"pii_redactions"} |->
        IF c = "content_preview" THEN r.text
        ELSE IF c = "pii_redactions" THEN r.redactions
        ELSE row[c]]

\* conv_df.to_dict('records'): a row as a message dictionary; it has the
\* keys 'role' and 'timestamp' and no key 'content'
RecordOf(row) == QMessage(Absent, row.role, row.timestamp)

\* the rows of one group of df.groupby('conversation_id'), in frame order
RECURSIVE GroupRows(_, _, _)
GroupRows(frame, conv_id, k) ==
    IF k = 0 THEN <<>>
    ELSE IF frame[k].conversation_id = conv_id
         THEN Append(GroupRows(frame, conv_id, k - 1), frame[k])
         ELSE GroupRows(frame, conv_id, k - 1)

\* lines 107-116: the dictionary appended for each row of the group
QualityOf(conv_metrics, flow_metrics, collab_quality, task_status) ==
    [collaboration_quality |-> collab_quality.status,
     task_completion_status |-> task_status.status,
     task_completion_confidence |-> task_status.confidence,
     conversation_turn_count |-> conv_metrics.turn_count,
     conversation_questions |-> conv_metrics.user_questions,
     conversation_code_blocks |-> conv_metrics.assistant_code_blocks,
     flow_interruptions |-> flow_metrics.interruptions,
     flow_quick_responses |-> flow_metrics.quick_responses]

\* lines 93-104: the analyses of one group
GroupQuality(group) ==
    QualityOf(calculate_conversation_metrics([k \in 1..Len(group) |-> RecordOf(group[k])]),
              analyze_conversation_flow([k \in 1..Len(group) |-> RecordOf(group[k])]),
              analyze_collaboration_quality([k \in 1..Len(group) |-> RecordOf(group[k])]),
              analyze_task_completion([k \in 1..Len(group) |-> group[k].content_preview]))

\* what df.join leaves in the new columns of a row that is in no group
NaN == [kind |-> "nan", val |-> ""]
QualityColumns ==
    {"collaboration_quality", "task_completion_status", "task_completion_confidence",
     "conversation_turn_count", "conversation_questions", "conversation_code_blocks",
     "flow_interruptions", "flow_quick_responses"}

\* the row with the quality columns q joined to it
Joined(row, q) ==
    [c \in DOMAIN row \cup QualityColumns |-> IF c \in QualityColumns THEN q[c] ELSE row[c]]

\* a frame returned, as a tagged value beside Raised
DataFrame(frame) == [kind |-> "frame", val |-> frame]

\* groupby leaves out the rows whose id is None: with no other row there is
\* no group, quality_metrics stays empty and the frame built from it has no
\* column 'index'
NoGroup(frame) == \A k \in 1..Len(frame) : frame[k].conversation_id = Null

\* _add_quality_metrics: set_index('index') of line 121 raises KeyError when
\* there is no group; else every row gets the columns of its group, and NaN
\* when it is in none
add_quality_metrics(frame) ==
    IF NoGroup(frame) THEN Raised("KeyError")
    ELSE DataFrame([k \in 1..Len(frame) |->
            IF frame[k].conversation_id = Null
            THEN Joined(frame[k], [c \in QualityColumns |-> NaN])
            ELSE Joined(frame[k],
                        GroupQuality(GroupRows(frame, frame[k].conversation_id, Len(frame))))])

MaxAdvMsgs == 2
AdvMsgPool ==
    { Message(Str("Why now? Ok?"), Absent, Str("user"), Absent, Str("2024-03-01T00:00:30Z")),
      Message(Str("Sorry Bob, wrong"), Absent, Str(""), Str("assistant"), Absent),
      Message(Str("ok"), Absent, Str("user"), Absent, Absent),
      Message(Absent, Str("mail a@b.com, thanks"), Absent, Str("assistant"), Absent) }
\* an answer that holds a block of code between two fences
FencedMessage ==
    Message(Str("Run:\n" \o CodeFence \o "x = 1\n" \o CodeFence), Absent,
            Str("assistant"), Absent, Absent)

AdvConv(id, l) ==
    [id |-> id, created_at |-> Str("2024-03-01T00:00:00Z"), updated_at |-> Absent,
     name |-> Str("Chat"), model |-> Absent,
     chat_messages |-> List(l), messages |-> NoList]

\* one conversation with every list of messages, two conversations under
\* one id, a conversation whose id is null with and without another one,
\* a conversation that ends with the fenced answer, one whose message list
\* is null
AdvExports ==
    { [conversations |-> List(<<AdvConv(Str("c1"), l)>>)] : l \in ListsUpTo(AdvMsgPool, MaxAdvMsgs) }
        \cup { [conversations |-> List(<<AdvConv(Str("c1"), <<m>>), AdvConv(Str("c1"), <<n>>)>>)] :
                 m \in AdvMsgPool, n \in AdvMsgPool }
        \cup { [conversations |-> List(<<AdvConv(Null, <<m>>), AdvConv(Absent, <<m>>)>>)] :
                 m \in AdvMsgPool }
        \cup { [conversations |-> List(<<AdvConv(Null, <<m>>)>>)] : m \in AdvMsgPool }
        \cup { [conversations |-> List(<<AdvConv(Str("c1"), <<m, FencedMessage>>)>>)] :
                 m \in AdvMsgPool }
        \cup { [conversations |-> List(<<NullMessagesConv>>)], [conversations |-> NullList] }
        \cup { [conversations |-> List(<<AdvConv(Str("c1"), <<m>>)>>)] : m \in ListMsgPool }

InitAdvanced ==
    /\ data \in AdvExports
    /\ enable_privacy \in BOOLEAN
    /\ enable_quality_analysis \in BOOLEAN
    /\ pc = "conv" /\ ci = 1 /\ mi = 0
    /\ rows = <<>> /\ src = <<>> /\ stats = <<>> /\ err = "none"
    /\ rtext = "" /\ rpc = "idle" /\ redacted = "" /\ reredacted = ""
    /\ tokenlog = {} /\ calls = 0 /\ rlog = <<>>
    /\ ClassifyIdle /\ QualityIdle /\ TemporalIdle

\* lines 55-57: nothing was parsed, the empty frame is returned as it is
ReturnNoData ==
    /\ pc = "parsed" /\ Len(rows) = 0
    /\ pc' = "advanced"
    /\ UNCHANGED <<data, ci, mi, rows, src, stats, err, classifyVars, redactVars, qualityVars, temporalVars, advancedVars>>

\* lines 60-64: the preview of every row is redacted when privacy is enabled
ApplyPrivacyRedaction ==
    /\ pc = "parsed" /\ Len(rows) > 0
    /\ rows' = IF enable_privacy
               THEN [k \in 1..Len(rows) |->
                        RedactRow(rows[k], redact_pii(enable_privacy, rows[k].content_preview))]
               ELSE rows
    /\ pc' = "private"
    /\ UNCHANGED <<data, ci, mi, src, stats, err, classifyVars, redactVars, qualityVars, temporalVars, advancedVars>>

\* lines 67-69 with line 121 raising: the exception leaves
\* parse_conversations_advanced, self.df keeps the frame of the privacy step
RaiseOnNoGroup ==
    /\ pc = "private" /\ enable_quality_analysis
    /\ NoGroup(rows)
    /\ pc' = "raised" /\ err' = add_quality_metrics(rows).val
    /\ UNCHANGED <<data, ci, mi, rows, src, stats, classifyVars, redactVars, qualityVars, temporalVars, advancedVars>>

\* lines 67-69: the quality columns are joined when the analysis is enabled
AddQualityMetrics ==
    /\ pc = "private"
    /\ enable_quality_analysis => ~NoGroup(rows)
    /\ rows' = IF enable_quality_analysis THEN add_quality_metrics(rows).val ELSE rows
    /\ pc' = "advanced"
    /\ UNCHANGED <<data, ci, mi, src, stats, err, classifyVars, redactVars, qualityVars, temporalVars, advancedVars>>

NextAdvanced ==
    \/ RaiseOnNullConversations
    \/ BeginConversation
    \/ RaiseOnNullMessages
    \/ SkipMessage
    \/ RaiseOnListText
    \/ AppendRow
    \/ EndConversation
    \/ BuildDataFrame
    \/ ReturnNoData
    \/ ApplyPrivacyRedaction
    \/ RaiseOnNoGroup
    \/ AddQualityMetrics
SpecAdvanced == InitAdvanced /\ [][NextAdvanced]_vars

(***************************************************************************)
(* Properties of the advanced pipeline                                     *)
(***************************************************************************)
\* the original resolved text of the message row k was built from
OriginalText(k) == ContentOf(SourceMessage(k)).val

ClassificationColumns ==
    {"topics", "topic_count", "sentiment", "has_failure", "failure_types",
     "failure_count", "failure_severities", "max_failure_severity"}
KeptColumns ==
    ClassificationColumns \cup
        {"conversation_id", "conversation_name", "message_index", "timestamp",
         "role", "model", "content_length", "word_count"}

\* the privacy step has run: also when the quality step after it has raised
PrivacyApplied ==
    /\ pc \in {"private", "advanced"} \/ (pc = "raised" /\ err = "KeyError")
    /\ enable_privacy /\ rows # <<>>

\* row agrees with base, the row parse_conversations built, in every kept column
KeepsColumns(row, base) == \A c \in KeptColumns : row[c] = base[c]
\* the preview and the labels of row are those of r, the redaction of the
\* original preview
HoldsRedaction(row, r) == row.content_preview = r.text /\ row.pii_redactions = r.redactions

\* C16: content_length and word_count of every row are the character count
\* and the whitespace-separated word count of the original resolved text of
\* its message; the privacy step rewrites the stored preview and adds the
\* PII labels, and leaves content_length, word_count and every
\* classification column as parse_conversations computed them.
C16_LengthAsymmetry ==
    \A k \in 1..Len(rows) :
        /\ rows[k].content_length = Len(OriginalText(k))
        /\ rows[k].word_count = WordCount(OriginalText(k))
        /\ KeepsColumns(rows[k], MakeRow(SourceConv(k), src[k][2], SourceMessage(k)))
        /\ PrivacyApplied =>
               HoldsRedaction(rows[k], redact_pii(TRUE, Prefix(OriginalText(k), PreviewLen)))
        /\ ~PrivacyApplied => rows[k].content_preview = Prefix(OriginalText(k), PreviewLen)

\* a row whose preview was redacted: the preview has another length than
\* the one recorded, which is still that of the original text
C16_Witness ==
    /\ PrivacyApplied
    /\ \E k \in 1..Len(rows) :
        /\ OriginalText(k) = "mail a@b.com, thanks"
        /\ rows[k].content_preview = "mail [EMAIL_REDACTED], thanks"
        /\ rows[k].pii_redactions = {"email"}
        /\ rows[k].content_length = 20
        /\ rows[k].word_count = 3

\* the first non-empty value among 'sender' and 'role', else 'unknown'
FirstNonEmptyRole(message) ==
    IF Truthy(message.sender) THEN message.sender
    ELSE IF Truthy(message.role) THEN message.role
    ELSE Str("unknown")

\* C18 as the spec states it: the role of a row is the first non-empty value
\* among the 'sender' and 'role' fields of its message, 'unknown' when
\* neither holds one
C18_RoleFirstNonEmpty ==
    \A k \in 1..Len(rows) : rows[k].role = FirstNonEmptyRole(SourceMessage(k))

QualityApplied == pc = "advanced" /\ enable_quality_analysis /\ rows # <<>>

\* the rows built from the messages of the conversation of row k
SameConversation(k) == { j \in 1..Len(rows) : src[j][1] = src[k][1] }
RECURSIVE QuestionMarks(_, _)
\* the '?' characters in the original texts of the user rows of J
QuestionMarks(J, j) ==
    IF j = 0 THEN 0
    ELSE (IF j \in J /\ rows[j].role = Str("user")
          THEN CountChar(OriginalText(j), "?") ELSE 0) + QuestionMarks(J, j - 1)

RECURSIVE FenceMarkers(_, _)
\* the code-fence markers in the original texts of the assistant rows of J
FenceMarkers(J, j) ==
    IF j = 0 THEN 0
    ELSE (IF j \in J /\ rows[j].role = Str("assistant")
          THEN CodeFenceCount(OriginalText(j)) ELSE 0) + FenceMarkers(J, j - 1)

\* C20 as the spec states it: after the pipeline with quality analysis
\* enabled, conversation_questions of every row is the number of '?'
\* characters in the user messages of its conversation, and
\* conversation_code_blocks the number of code-fence markers in its
\* assistant messages
C20_PipelineQuestions ==
    QualityApplied =>
        \A k \in 1..Len(rows) :
            rows[k].conversation_id # Null =>
                /\ rows[k].conversation_questions = QuestionMarks(SameConversation(k), Len(rows))
                /\ rows[k].conversation_code_blocks = FenceMarkers(SameConversation(k), Len(rows))

\* the sum of the scores in the window that ends at message i: the sign of
\* the moving average there
WindowSum(s, i) == Trailing(s, Max({1, i - 9}), i)
\* the moving average at message i is above that of message i - 1
Rising(s, i) ==
    LET a == Max({1, i - 9})
        b == Max({1, i - 10})
    IN  (Trailing(s, a, i) * (i - b)) > (Trailing(s, b, i - 1) * (i - a + 1))

\* the events are those of the flagged messages of s, each with the
\* direction the sign of the window sum gives
DirectionBySign(s, flagged) ==
    /\ Len(tres) = Len(flagged)
    /\ \A e \in 1..Len(tres) :
           /\ tres[e].timestamp = s[flagged[e]].timestamp
           /\ tres[e].direction \in {"positive", "negative"}
           /\ WindowSum(s, flagged[e]) > 0 => tres[e].direction = "positive"
           /\ WindowSum(s, flagged[e]) < 0 => tres[e].direction = "negative"
           /\ WindowSum(s, flagged[e]) = 0 => tres[e].direction = "negative"
\* C21: every reported change event carries the direction given by the
\* moving average at the flagged message and not by the change: 'positive'
\* when that average is above 0, 'negative' when it is below 0, and also
\* 'negative' when the average has moved to exactly 0, whether it rose or
\* fell to get there.
C21_ChangeDirection ==
    tpc = "done" => \E s \in TimeOrders(tdf) : DirectionBySign(s, SortedSeq(Flagged(s)))

\* a negative then a positive message: the average rises from -1 to exactly
\* 0 at the second message, which is reported with direction 'negative'
C21_Witness ==
    /\ tpc = "done"
    /\ Len(tdf) = 2 /\ Len(tres) = 1
    /\ \A s \in TimeOrders(tdf) :
           /\ LabelScore(s[1].sentiment) = -1
           /\ LabelScore(s[2].sentiment) = 1
           /\ Rising(s, 2)
           /\ WindowSum(s, 2) = 0
    /\ tres[1].direction = "negative"

\* the timestamp of the message is present and parses
Parses(msg) == msg.timestamp.kind = "str" /\ TimeOf(msg).ok
\* the adjacent pairs (i - 1, i) whose two timestamps both parse
ParsedPairs(messages) ==
    { i \in 2..Len(messages) : Parses(messages[i]) /\ Parses(messages[i - 1]) }
\* the time from message i - 1 to message i, a time without offset being
\* read as UTC
TimeBetween(messages, i) == TimeDiff(TimeOf(messages[i]), TimeOf(messages[i - 1]))

\* C22: every adjacent pair whose two timestamps both parse adds 1 to
\* quick_responses when its gap is below 60 seconds and 1 to long_gaps when
\* its gap is above 3600 seconds, never to both; a pair with a missing, null
\* or unparsable timestamp adds to neither; and every pair, whatever its
\* timestamps, still updates interruptions / monologues.
C22_FlowTiming ==
    qres # NoResult =>
        /\ qres.quick_responses =
               Cardinality({ i \in ParsedPairs(qmsgs) : IsQuick(TimeBetween(qmsgs, i)) })
        /\ qres.long_gaps =
               Cardinality({ i \in ParsedPairs(qmsgs) : IsLong(TimeBetween(qmsgs, i)) })
        /\ qres.interruptions + qres.monologues = Cardinality(EqualRolePairs(qmsgs))

\* the highest score of the table
TopScore(scores) == Max({ scores[n] : n \in 1..Len(scores) })
\* the categories holding the highest score, by position in the table
TopCategories(scores) == { n \in 1..Len(scores) : scores[n] = TopScore(scores) }

\* C23: when no Urgent pattern matches, detect_sentiment returns 'Neutral'
\* if every category scores 0, and otherwise the category with the highest
\* total match count, the one declared first in the table among those tied
\* for it.
C23_SentimentArgmax ==
    (cpc = "done" /\ UrgentMatches(text) = 0) =>
        LET scores == SentimentScores(text)
        IN  IF TopScore(scores) = 0 THEN sentiment = "Neutral"
            ELSE sentiment = sentiment_patterns[Min(TopCategories(scores))].name

\* one Negative match and one Questioning match: the tie goes to Negative,
\* declared first
C23_Witness ==
    /\ cpc = "done"
    /\ text = "why error"
    /\ UrgentMatches(text) = 0
    /\ TopCategories(SentimentScores(text))
          = {SentimentIndex("Negative"), SentimentIndex("Questioning")}
    /\ sentiment = "Negative"

\* the rows of the frame whose date is one of the dates D
RowsDated(frame, D) == { k \in 1..Len(frame) : frame[k].date \in D }
\* the active dates that belong to the streak
OwnDates(frame, streak) ==
    { d \in ActiveSet(frame) : streak.start_date <= d /\ d <= streak.end_date }
RECURSIVE CountSum(_, _)
CountSum(streaks, k) ==
    IF k = 0 THEN 0 ELSE CountSum(streaks, k - 1) + streaks[k].message_count

\* C24: the message_count of every returned streak is the number of messages
\* whose date lies in [start_date, end_date], which is the number of
\* messages on the streak's own active dates; no message is counted in two
\* streaks, so the counts add up to the number of messages on streak dates
\* and a message without date is counted nowhere.
C24_StreakMessageCount ==
    tpc = "done" =>
        /\ \A e \in 1..Len(tres) :
               /\ tres[e].message_count
                      = Cardinality(RowsDated(tdf, tres[e].start_date..tres[e].end_date))
               /\ tres[e].message_count
                      = Cardinality(RowsDated(tdf, OwnDates(tdf, tres[e])))
        /\ \A k \in 1..Len(tdf) :
               Cardinality({ e \in 1..Len(tres) :
                               k \in RowsDated(tdf, tres[e].start_date..tres[e].end_date) }) <= 1
        /\ CountSum(tres, Len(tres))
               = Cardinality(UNION { RowsDated(tdf, tres[e].start_date..tres[e].end_date) :
                                       e \in 1..Len(tres) })
        /\ CountSum(tres, Len(tres)) <= Cardinality(RowsDated(tdf, ActiveSet(tdf)))

\* two streaks over a frame that also holds a second message on its first
\* date and a message without date: 4 messages on days 5..8, 4 on days 1..3
C24_Witness ==
    /\ tpc = "done"
    /\ ActiveSet(tdf) = {1, 2, 3, 5, 6, 7, 8} /\ min_days = 3
    /\ Len(tdf) = 9
    /\ Len(tres) = 2
    /\ tres[1].message_count = 4 /\ tres[1].length_days = 4
    /\ tres[2].message_count = 4 /\ tres[2].length_days = 3

\* the failure categories with a pattern that re.search finds in the lowered
\* text, by position in the table
MatchingFailures(t) ==
    { n \in 1..Len(failure_patterns) :
        \E j \in 1..Len(failure_patterns[n].patterns) :
            Search(failure_patterns[n].patterns[j], Lower(t)) }
FailureCategories == 11

\* C25: detect_failures returns a list of labels and a list of severities of
\* equal length; the labels are the matching categories of the 11, each once
\* however many of its patterns match, in table order; the severity at
\* position i is the configured severity of the label at position i; both
\* lists are empty when no pattern matches.
C25_ParallelFailureLists ==
    cpc = "done" =>
        LET matching == SortedSeq(MatchingFailures(text))
        IN  /\ Len(failure_patterns) = FailureCategories
            /\ Len(failures.detected) = Len(failures.severities)
            /\ Len(failures.detected) = Len(matching)
            /\ \A i \in 1..Len(matching) :
                   /\ failures.detected[i] = failure_patterns[matching[i]].name
                   /\ failures.severities[i] = failure_patterns[matching[i]].severity
                   /\ Occurrences(failures.detected, failures.detected[i]) = 1
            /\ matching = <<>> => failures = NoFailures

\* 'broken' (Formatting Issues, third of the table) ahead of 'wrong'
\* (Hallucination, first of the table) in the text
C25_Witness ==
    /\ cpc = "done"
    /\ text = "broken wrong"
    /\ failures.detected = <<"Hallucination", "Formatting Issues">>
    /\ failures.severities = <<"high", "low">>

\* the columns of a row that the claim calls its classification: the labels
\* and the two lengths
LabelColumns == ClassificationColumns \cup {"content_length", "word_count"}
\* rows j and k were built from messages with the same resolved text and role
SameTextAndRole(j, k) ==
    /\ ContentOf(SourceMessage(j)) = ContentOf(SourceMessage(k))
    /\ RoleOf(SourceMessage(j)) = RoleOf(SourceMessage(k))

\* C26: the topics, sentiment, failure labels and lengths of a row depend
\* only on the resolved text and role of its own message: any two rows built
\* from messages with the same text and role carry the same values, whatever
\* conversation they are in, whatever messages surround them and at whatever
\* position they were processed.
C26_PerMessageIndependence ==
    \A j, k \in 1..Len(rows) :
        SameTextAndRole(j, k) => \A c \in LabelColumns : rows[j][c] = rows[k][c]

\* the same assistant message, with a failure, as second message of one
\* conversation after a user message and as first message of another
C26_Witness ==
    /\ pc = "parsed"
    /\ \E j, k \in 1..Len(rows) :
          /\ SameTextAndRole(j, k)
          /\ src[j][1] # src[k][1]
          /\ rows[j].message_index = 1 /\ rows[k].message_index = 0
          /\ rows[j].has_failure
          /\ rows[j - 1].sentiment # rows[j].sentiment

\* C27: the moving average of scores in {-1, 0, +1} over a trailing window
\* of 10 (at least 1 sample) differs from its predecessor by more than 0.5
\* only at the second or third message in timestamp order, never from the
\* fourth message on, so at most two events are reported and each of them is
\* the second or the third message.
C27_ChangesOnlyAtStart ==
    tpc = "done" =>
        /\ \A s \in TimeOrders(tdf) :
               /\ \A i \in 4..Len(s) : 2 * Delta(s, i).num <= Delta(s, i).den
               /\ Flagged(s) \subseteq {2, 3}
        /\ Len(tres) <= 2
        /\ \E s \in TimeOrders(tdf) :
               /\ Len(tres) = Cardinality(Flagged(s))
               /\ \A e \in 1..Len(tres) :
                      \E i \in {2, 3} \cap Flagged(s) : tres[e].timestamp = s[i].timestamp

\* two positive messages and ten negative ones: the third message is the
\* only event although the average keeps falling until the window is full
C27_Witness ==
    /\ tpc = "done"
    /\ Len(tdf) = LongShiftRows
    /\ \A i \in 1..Len(tdf) : LabelScore(tdf[i].sentiment) = IF i <= 2 THEN 1 ELSE -1
    /\ Len(tres) = 1 /\ tres[1].timestamp = 3
    /\ tres[1].direction = "positive"

(***************************************************************************)
(* parse_conversations on exports whose assistant messages earn several    *)
(* failure labels of different severities                                  *)
(***************************************************************************)
MaxSeverityMsgs == 2
SeverityMsgPool ==
    { Message(Str("wrong markdown api error"), Absent, Str("assistant"), Absent, Absent),
      Message(Str("markdown again"), Absent, Str("bot"), Absent, Absent),
      Message(Str("again wrong"), Absent, Absent, Str("assistant"), Absent),
      Message(Str("wrong, fix now"), Absent, Str("user"), Absent, Absent),
      Message(Str("hello there"), Absent, Str("assistant"), Absent, Absent),
      Message(Str(" a "), Absent, Str("assistant"), Absent, Absent) }
SeverityExports ==
    { [conversations |-> List(<<FullConv(l)>>)] :
        l \in ListsUpTo(SeverityMsgPool, MaxSeverityMsgs) }
      \cup { [conversations |-> List(<<FullConv(<<m>>), NullMessagesConv>>)] :
               m \in SeverityMsgPool }
      \cup { [conversations |-> List(<<FullConv(<<m>>)>>)] : m \in ListMsgPool }
      \cup { [conversations |-> NullList] }

InitSeverity ==
    /\ data \in SeverityExports
    /\ pc = "conv" /\ ci = 1 /\ mi = 0
    /\ rows = <<>> /\ src = <<>> /\ stats = <<>> /\ err = "none"
    /\ ClassifyIdle /\ RedactIdle /\ QualityIdle /\ TemporalIdle /\ AdvancedIdle
SpecSeverity == InitSeverity /\ [][Next]_vars

\* low < medium < high
SeverityLevel(s) == IF s = "low" THEN 1 ELSE IF s = "medium" THEN 2 ELSE 3
LevelName(n) == IF n = 1 THEN "low" ELSE IF n = 2 THEN "medium" ELSE "high"
MostSevere(severities) ==
    LevelName(Max({ SeverityLevel(severities[i]) : i \in 1..Len(severities) }))
\* the failure severities of the message row k was built from
SeveritiesOfRow(k) ==
    FailuresFor(RoleOf(SourceMessage(k)), ContentOf(SourceMessage(k)).val).severities

\* C28: in every parsed row with at least one failure, max_failure_severity
\* is the most severe of the row's failure severities under the order
\* low < medium < high, and it is 'none' exactly when the row has no failure.
C28_MaxSeverityMostSevere ==
    \A k \in 1..Len(rows) :
        /\ rows[k].has_failure
              => rows[k].max_failure_severity = MostSevere(SeveritiesOfRow(k))
        /\ (rows[k].max_failure_severity = "none") <=> ~rows[k].has_failure

\* the rows flagged with a failure, and the rows of an assistant or bot
FailureRows == { k \in 1..Len(rows) : rows[k].has_failure }
AssistantRows == { k \in 1..Len(rows) : rows[k].role \in {Str("assistant"), Str("bot")} }

\* C29: the rows with has_failure are rows of role 'assistant' or 'bot', so
\* messages_with_failures <= assistant_messages, and whenever the corpus
\* holds an assistant/bot row generate_statistics reports a failure_rate
\* between 0 and 100.
C29_FailureRateBounded ==
    /\ FailureRows \subseteq AssistantRows
    /\ (pc = "stats" /\ AssistantRows # {}) =>
          /\ err = "none"
          /\ stats.messages_with_failures = Cardinality(FailureRows)
          /\ stats.assistant_messages = Cardinality(AssistantRows)
          /\ stats.messages_with_failures <= stats.assistant_messages
          /\ stats.failure_rate.den > 0
          /\ 0 <= stats.failure_rate.num
          /\ stats.failure_rate.num <= 100 * stats.failure_rate.den

\* a user message whose text matches a failure pattern next to an assistant
\* message with two failures: one failure row, one assistant row
C29_Witness ==
    /\ pc = "stats" /\ err = "none"
    /\ Len(rows) = 2
    /\ rows[1].role = Str("user") /\ rows[1].content_preview = "wrong, fix now"
    /\ rows[2].role = Str("assistant") /\ rows[2].failure_count = 2
    /\ stats.messages_with_failures = 1 /\ stats.assistant_messages = 1
    /\ stats.failure_rate.num = 100 * stats.failure_rate.den

\* C30: the confidence returned by analyze_task_completion is
\* max(scores) / (sum(scores) + 1): at least 0 and strictly below 1; the
\* status is 'in_progress' exactly when the three scores are all 0, which is
\* exactly when the confidence is 0.
C30_ConfidenceBounds ==
    qres # NoResult =>
        LET s == qres.scores
            top == Max({s[1], s[2], s[3]})
            allZero == s[1] = 0 /\ s[2] = 0 /\ s[3] = 0
        IN  /\ \A n \in 1..3 : s[n] >= 0
            /\ qres.confidence.den > 0
            /\ qres.confidence.num * (s[1] + s[2] + s[3] + 1) = top * qres.confidence.den
            /\ 0 <= qres.confidence.num
            /\ qres.confidence.num < qres.confidence.den
            /\ (qres.status = "in_progress") <=> allZero
            /\ allZero <=> (qres.confidence.num = 0)

\* three matches of one category and none of the others: confidence 3/4
C30_Witness ==
    /\ qres # NoResult
    /\ qres.scores = <<3, 0, 0>>
    /\ qres.status = "completed"
    /\ 4 * qres.confidence.num = 3 * qres.confidence.den

=============================================================================
